---------------------------- MODULE Spec2Model ----------------------------
(*
  Model of the Constellations core: the Graph with blockable edges
  (src/core/models.py), the shortest-path engine (src/core/planner.py) and
  the step-wise Simulator (src/core/simulator.py).

  Quantities the code keeps as floats (energy percentage, resource kg, life,
  distances, factors) are fixed-point integers in units of 1/Scale.  The
  inputs are chosen so that every product and quotient the code forms is a
  whole number of such units.
*)
EXTENDS Integers, Sequences, FiniteSets, TLC

VARIABLES
    adjacency,   \* Graph.adjacency: <<u, v>> -> [distance, blocked]
    order,       \* the pairs <<u, v>> in the iteration order of Graph.adjacency
    links,       \* Star.links of every star: id -> sequence of Link
    donkey,      \* the Donkey object the Simulator holds a reference to
    route,       \* Simulator.route
    index,       \* Simulator.index
    visited,     \* Simulator._visited
    state,       \* Simulator.state (SimulationState, stars_log included)
    log,         \* Simulator.log
    raised,      \* the last call ended with an exception
    called,      \* the last call made on the Simulator, the Graph or a planner
    constellations,       \* Graph.constellations: name -> Constellation.stars
    star_constellations,  \* Star.constellations of every star
    shared,               \* Star.shared of every star
    plan,        \* the arguments and the result of the last planner call
    stars        \* Graph.stars: the Star object of every star

vars == <<adjacency, order, links, donkey, route, index, visited, state, log, raised,
          called, constellations, star_constellations, shared, plan, stars>>

-----------------------------------------------------------------------------
(* Bounds of the model *)

MaxRouteLen == 2
MaxTeleports == 1
\* step() calls after which the model stops following run_all's loop
MaxRunCalls == 8
\* directed pairs in adjacency beyond which add_edge is called on stored
\* pairs only
MaxEdges == 3
\* levels of a search beyond which the model stops following it
MaxLevels == 6
\* largest number of clock checks a search passes before its time ceiling
MaxChecks == 3
\* kilograms of grass beyond which greedy_max_visits_enhanced is not called
\* again
MaxPasto == 4

-----------------------------------------------------------------------------
(* Fixed-point arithmetic *)

Scale == 16 * 5

Fx(n) == n * Scale
Mul(a, b) == (a * b) \div Scale
Div(a, b) == (a * Scale) \div b
Min(a, b) == IF a <= b THEN a ELSE b
Max(a, b) == IF a >= b THEN a ELSE b
Half == Scale \div 2
Tenth == Scale \div 10
Hundred == Fx(100)

\* Python's None where an integer id is expected
None == -1
\* Python's None where a string is expected
NoLabel == ""

Get(f, k, default) == IF k \in DOMAIN f THEN f[k] ELSE default

-----------------------------------------------------------------------------
(* The stars of the graph (Graph.stars) *)

HealthLabels == {"Excelente", "Buena", "Regular", "Mala", "Moribundo", "Muerto"}

Star(tte, inv, hyper, ld, hm, bonus) ==
    [time_to_eat |-> tte, investigation_energy_cost |-> inv,
     hypergiant |-> hyper, life_delta |-> ld, health_modifier |-> hm,
     energy_bonus_pct |-> bonus]

\* the stars as galaxies.json lists them, with the modifiers the editor gave them
StarData ==
    [id \in {1, 2, 3} |->
       CASE id = 1 -> Star(Fx(1), Fx(50), FALSE, 0, NoLabel, Half)
         [] id = 2 -> Star(Fx(1), 0, TRUE, Fx(5), "Excelente", 0)
         [] id = 3 -> Star(Fx(2), Fx(5), FALSE, Fx(-15), "Muerto", 0)]

StarIds == DOMAIN StarData
\* an id that is not a key of Graph.stars
UnknownId == 9
Ids == StarIds \cup {UnknownId}

-----------------------------------------------------------------------------
(* Shortest paths: planner.dijkstra and planner.reconstruct_path *)

Merge(f, g) ==
    [x \in (DOMAIN f) \cup (DOMAIN g) |-> IF x \in DOMAIN g THEN g[x] ELSE f[x]]

\* heapq.heappop on (distance, node) tuples: the least tuple
HeapTop(pq) ==
    CHOOSE p \in pq : \A q \in pq :
        p[1] < q[1] \/ (p[1] = q[1] /\ p[2] <= q[2])

RECURSIVE DijkstraLoop(_, _, _, _, _)
DijkstraLoop(adj, include_blocked, dist, parent, pq) ==
    IF pq = {} THEN [dist |-> dist, parent |-> parent]
    ELSE
      LET top == HeapTop(pq)
          d == top[1]
          u == top[2]
          rest == pq \ {top}
      IN IF d > dist[u]
         THEN DijkstraLoop(adj, include_blocked, dist, parent, rest)
         ELSE
           LET relaxed ==
                 {v \in {e[2] : e \in {e \in DOMAIN adj : e[1] = u}} :
                     /\ (include_blocked \/ ~adj[<<u, v>>].blocked)
                     /\ (v \in DOMAIN dist =>
                           d + adj[<<u, v>>].distance < dist[v])}
               nd == [v \in relaxed |-> d + adj[<<u, v>>].distance]
               np == [v \in relaxed |-> u]
           IN DijkstraLoop(adj, include_blocked, Merge(dist, nd),
                           Merge(parent, np),
                           rest \cup {<<nd[v], v>> : v \in relaxed})

\* dijkstra(graph, source, include_blocked); raises ValueError when the
\* source is not a key of graph.stars
DijkstraRaises(source) == source \notin StarIds

\* a search that keeps the first distance it finds for a star
RECURSIVE FirstFoundLoop(_, _, _, _, _)
FirstFoundLoop(adj, include_blocked, dist, parent, pq) ==
    IF pq = {} THEN [dist |-> dist, parent |-> parent]
    ELSE
      LET top == HeapTop(pq)
          d == top[1]
          u == top[2]
          rest == pq \ {top}
          found ==
            {v \in {e[2] : e \in {e \in DOMAIN adj : e[1] = u}} :
                /\ (include_blocked \/ ~adj[<<u, v>>].blocked)
                /\ v \notin DOMAIN dist}
          nd == [v \in found |-> d + adj[<<u, v>>].distance]
          np == [v \in found |-> u]
      IN FirstFoundLoop(adj, include_blocked, Merge(dist, nd), Merge(parent, np),
                        rest \cup {<<nd[v], v>> : v \in found})

dijkstra_first_found(adj, source, include_blocked) ==
    FirstFoundLoop(adj, include_blocked,
                   [v \in {source} |-> 0], [v \in {source} |-> None],
                   {<<0, source>>})

\* a dijkstra that walks blocked links as well
dijkstra_through_blocked(adj, source, include_blocked) ==
    DijkstraLoop(adj, TRUE,
                 [v \in {source} |-> 0], [v \in {source} |-> None],
                 {<<0, source>>})

dijkstra(adj, source, include_blocked) ==
    DijkstraLoop(adj, include_blocked,
                 [v \in {source} |-> 0], [v \in {source} |-> None],
                 {<<0, source>>})

RECURSIVE WalkBack(_, _)
WalkBack(parent, cur) ==
    IF cur = None THEN <<>>
    ELSE Append(WalkBack(parent, Get(parent, cur, None)), cur)

reconstruct_path(parent, target) ==
    IF target \notin DOMAIN parent THEN <<>> ELSE WalkBack(parent, target)

-----------------------------------------------------------------------------
(* Graph mutation: models.Graph and models.Star.add_link.  A graph value is
   [adjacency, order, links]; a dict of dicts adjacency[u][v] is the function
   on the pairs <<u, v>>, and order lists the pairs as the nested loops
   "for u in adjacency, for v in adjacency[u]" meet them (dicts iterate in
   insertion order). *)

Edge(distance, blocked) == [distance |-> distance, blocked |-> blocked]
Link(to, distance, blocked) == [to |-> to, distance |-> distance, blocked |-> blocked]

EmptyGraph == [adjacency |-> [e \in {} |-> Edge(0, FALSE)],
               order |-> <<>>,
               links |-> [id \in StarIds |-> <<>>]]

\* the iteration order after adjacency[u][v] is assigned: a new v goes last
\* in adjacency[u], a new u goes last in adjacency
InsertPair(ord, u, v) ==
    IF \E i \in 1..Len(ord) : ord[i] = <<u, v>> THEN ord
    ELSE IF \E i \in 1..Len(ord) : ord[i][1] = u
    THEN LET i == CHOOSE j \in 1..Len(ord) :
                    ord[j][1] = u /\ \A k \in (j + 1)..Len(ord) : ord[k][1] # u
         IN SubSeq(ord, 1, i) \o <<<<u, v>>>> \o SubSeq(ord, i + 1, Len(ord))
    ELSE Append(ord, <<u, v>>)

\* Star.add_link: merge into the first link to the same neighbour, else append
add_link(ls, to, distance, blocked) ==
    IF \E i \in 1..Len(ls) : ls[i].to = to
    THEN LET i == CHOOSE j \in 1..Len(ls) :
                    ls[j].to = to /\ \A k \in 1..(j - 1) : ls[k].to # to
         IN [ls EXCEPT ![i] = Link(to, Min(ls[i].distance, distance),
                                   ls[i].blocked \/ blocked)]
    ELSE Append(ls, Link(to, distance, blocked))

\* a check of the source end only
AddEdgeRaisesSourceOnly(u, v) == u \notin StarIds

\* add_edge raises KeyError before it changes anything
AddEdgeRaises(u, v) == u \notin StarIds \/ v \notin StarIds

\* an add_edge in which the last call for a pair wins
add_edge_last_wins(g, u, v, distance, blocked) ==
    [adjacency |-> Merge(g.adjacency, [x \in {<<u, v>>} |-> Edge(distance, blocked)]),
     order |-> InsertPair(g.order, u, v),
     links |-> [g.links EXCEPT ![u] = add_link(@, v, distance, blocked)]]

add_edge(g, u, v, distance, blocked) ==
    LET adj == g.adjacency
        e == <<u, v>>
        newEdge == IF e \in DOMAIN adj
                   THEN Edge(Min(adj[e].distance, distance), adj[e].blocked \/ blocked)
                   ELSE Edge(distance, blocked)
    IN [adjacency |-> Merge(adj, [x \in {e} |-> newEdge]),
        order |-> InsertPair(g.order, u, v),
        links |-> [g.links EXCEPT ![u] = add_link(@, v, distance, blocked)]]

\* the keys of adjacency in iteration order
RECURSIVE OuterKeys(_)
OuterKeys(ord) ==
    IF ord = <<>> THEN <<>>
    ELSE LET rest == OuterKeys(SubSeq(ord, 1, Len(ord) - 1))
             u == ord[Len(ord)][1]
         IN IF \E i \in 1..Len(rest) : rest[i] = u THEN rest ELSE Append(rest, u)

\* list(adjacency[u].items()): the neighbours of u in iteration order
InnerKeys(ord, u) ==
    LET F[i \in 0..Len(ord)] ==
          IF i = 0 THEN <<>>
          ELSE IF ord[i][1] = u THEN Append(F[i - 1], ord[i][2]) ELSE F[i - 1]
    IN F[Len(ord)]

\* a loop body that writes the reverse edge whether or not one is stored
AddReverseUnchecked(g, u, v, default_blocked) ==
    LET edge == g.adjacency[<<u, v>>]
    IN [adjacency |->
           Merge(g.adjacency,
                 [x \in {<<v, u>>} |->
                    Edge(edge.distance, edge.blocked \/ default_blocked)]),
        order |-> InsertPair(g.order, v, u),
        links |->
           [g.links EXCEPT ![v] =
              add_link(@, u, edge.distance, edge.blocked \/ default_blocked)]]

\* the body of ensure_bidirectional's loops for one edge (u, v)
AddReverse(g, u, v, default_blocked) ==
    LET edge == g.adjacency[<<u, v>>]
    IN IF <<v, u>> \in DOMAIN g.adjacency THEN g
       ELSE [adjacency |->
                Merge(g.adjacency,
                      [x \in {<<v, u>>} |->
                         Edge(edge.distance, edge.blocked \/ default_blocked)]),
             order |-> InsertPair(g.order, v, u),
             links |->
                [g.links EXCEPT ![v] =
                   add_link(@, u, edge.distance, edge.blocked \/ default_blocked)]]

RECURSIVE EnsureInner(_, _, _, _)
EnsureInner(g, u, vs, default_blocked) ==
    IF vs = <<>> THEN g
    ELSE EnsureInner(AddReverse(g, u, Head(vs), default_blocked), u, Tail(vs),
                     default_blocked)

\* the outer loop: the neighbours of u are listed when the loop reaches u
RECURSIVE EnsureLoop(_, _, _)
EnsureLoop(g, us, default_blocked) ==
    IF us = <<>> THEN g
    ELSE EnsureLoop(EnsureInner(g, Head(us), InnerKeys(g.order, Head(us)),
                                default_blocked),
                    Tail(us), default_blocked)

\* the outer loop runs over the keys adjacency has when the call starts
ensure_bidirectional(g, default_blocked) ==
    EnsureLoop(g, OuterKeys(g.order), default_blocked)

\* toggle_edge_block's inner _apply(a, b); blocked is "None", "True" or "False"
ToggleApply(g, a, b, blocked) ==
    IF <<a, b>> \notin DOMAIN g.adjacency THEN [graph |-> g, mod |-> FALSE]
    ELSE
      LET edge == g.adjacency[<<a, b>>]
          new_val == IF blocked = "None" THEN ~edge.blocked ELSE blocked = "True"
          adj2 == [g.adjacency EXCEPT ![<<a, b>>].blocked = new_val]
          ls == IF a \in StarIds THEN g.links[a] ELSE <<>>
          links2 ==
            IF a \in StarIds /\ \E i \in 1..Len(ls) : ls[i].to = b
            THEN LET i == CHOOSE j \in 1..Len(ls) :
                            ls[j].to = b /\ \A k \in 1..(j - 1) : ls[k].to # b
                 IN [g.links EXCEPT ![a] = [@ EXCEPT ![i].blocked = new_val]]
            ELSE g.links
      IN [graph |-> [g EXCEPT !.adjacency = adj2, !.links = links2],
          mod |-> edge.blocked # new_val]

toggle_edge_block(g, u, v, blocked) ==
    LET r1 == ToggleApply(g, u, v, blocked)
        r2 == ToggleApply(r1.graph, v, u, blocked)
    IN [graph |-> r2.graph, changed |-> r1.mod \/ r2.mod]

\* the graph the simulations run on: built by add_edge calls and made
\* bidirectional, as the loader does
RECURSIVE AddEdges(_, _)
AddEdges(g, es) ==
    IF es = <<>> THEN g
    ELSE AddEdges(add_edge(g, Head(es)[1], Head(es)[2], Fx(Head(es)[3]), Head(es)[4]),
                  Tail(es))

\* <<from, to, distance, blocked>> as in galaxies.json; the long edge 1-3
\* is loaded blocked
RawEdges == << <<1, 2, 10, FALSE>>, <<1, 3, 40, TRUE>>, <<2, 3, 20, FALSE>> >>

LoadedGraph == ensure_bidirectional(AddEdges(EmptyGraph, RawEdges), FALSE)

-----------------------------------------------------------------------------
(* Constellation membership: Graph.add_star and Graph.recompute_shared_flags.
   A catalog value is [constellations, star_constellations, shared]. *)

\* the constellation names of galaxies.json, in the order sorted() gives them
ConstellationNames == <<"Alfa", "Beta">>
\* add_star's constellation_name=None
NoName == "None"

Contains(seq, x) == \E i \in 1..Len(seq) : seq[i] = x

EmptyCatalog ==
    [constellations |-> [n \in {} |-> <<>>],
     star_constellations |-> [id \in StarIds |-> <<>>],
     shared |-> [id \in StarIds |-> FALSE]]

\* add_star for a Star object the graph is built from; self.stars[star.id] is
\* set to that object
add_star(c, id, constellation_name) ==
    IF constellation_name = NoName THEN c
    ELSE
      LET const == Get(c.constellations, constellation_name, <<>>)
          const2 == IF Contains(const, id) THEN const ELSE Append(const, id)
      IN [c EXCEPT
            !.constellations = Merge(@, [n \in {constellation_name} |-> const2]),
            !.star_constellations[id] =
                IF Contains(@, constellation_name) THEN @
                ELSE Append(@, constellation_name)]

\* the memberships map of recompute_shared_flags: the names of the
\* constellations whose stars list holds sid
Memberships(c, sid) ==
    {n \in DOMAIN c.constellations : Contains(c.constellations[n], sid)}

\* sorted(names)
SortedNames(S) == SelectSeq(ConstellationNames, LAMBDA n : n \in S)

\* a recomputation that visits only the stars some constellation lists
recompute_shared_flags_members_only(c) ==
    LET listed == {sid \in StarIds : Memberships(c, sid) # {}}
        consts == [sid \in StarIds |->
                     IF sid \in listed THEN SortedNames(Memberships(c, sid))
                     ELSE c.star_constellations[sid]]
        now == [sid \in StarIds |->
                  IF sid \in listed THEN Len(consts[sid]) > 1 ELSE c.shared[sid]]
    IN [catalog |-> [c EXCEPT !.star_constellations = consts, !.shared = now],
        changed |-> Cardinality({sid \in StarIds : now[sid] # c.shared[sid]})]

\* recompute_shared_flags: the catalog it leaves and the count it returns
recompute_shared_flags(c) ==
    LET consts == [sid \in StarIds |-> SortedNames(Memberships(c, sid))]
        now == [sid \in StarIds |-> Len(consts[sid]) > 1]
    IN [catalog |-> [c EXCEPT !.star_constellations = consts, !.shared = now],
        changed |-> Cardinality({sid \in StarIds : now[sid] # c.shared[sid]})]

\* the catalog the loader leaves: star 2 belongs to both constellations
LoadedCatalog ==
    recompute_shared_flags(
        add_star(add_star(add_star(add_star(EmptyCatalog, 1, "Alfa"), 2, "Alfa"),
                          2, "Beta"), 3, "Beta")).catalog

-----------------------------------------------------------------------------
(* The Donkey: models.Donkey *)

\* Donkey.sim_config: None (no key at all) or a dict of tunables
NoConfig == [k \in {} |-> 0]

DefaultMovementFactors ==
    [h \in {"Excelente", "Buena", "Regular", "Mala", "Moribundo"} |->
       CASE h = "Excelente" -> (Scale * 60) \div 100
         [] h = "Buena" -> (Scale * 75) \div 100
         [] h = "Regular" -> (Scale * 80) \div 100
         [] h = "Mala" -> Scale
         [] h = "Moribundo" -> (Scale * 130) \div 100]

\* a burro.json configuration: the documented movement factors, a doubled
\* super-node recharge and a lower eating threshold
CustomConfig ==
    [movementCostFactorByHealth |-> DefaultMovementFactors,
     hypergiantRechargePct |-> Scale,
     eatEnergyThresholdPct |-> Fx(30)]

DefaultEnergyGain ==
    [h \in HealthLabels |->
       CASE h = "Excelente" -> Fx(5)
         [] h = "Buena" -> Fx(3)
         [] h = "Regular" -> Fx(3)
         [] h = "Mala" -> Fx(2)
         [] h = "Moribundo" -> Half
         [] h = "Muerto" -> 0]

energy_gain_per_kg(dk) ==
    IF "healthEnergyGain" \in DOMAIN dk.sim_config
    THEN Get(dk.sim_config.healthEnergyGain, dk.salud, Fx(2))
    ELSE Get(DefaultEnergyGain, dk.salud, Fx(2))

apply_health_modifier(dk, modifier) ==
    IF modifier = NoLabel THEN dk
    ELSE IF modifier \in {"Excelente", "Regular", "Mala", "Moribundo", "Muerto"}
            \/ modifier = "Buena"
         THEN [dk EXCEPT !.salud = modifier]
         ELSE dk

\* the label update_health_by_energy derives from an energy value
HealthTarget(e) ==
    IF e <= 0 THEN "Muerto"
    ELSE IF e <= Fx(25) THEN "Moribundo"
    ELSE IF e <= Fx(50) THEN "Mala"
    ELSE IF e <= Fx(75) THEN "Buena"
    ELSE "Excelente"

update_health_by_energy(dk) ==
    IF dk.salud = "Muerto" THEN dk
    ELSE [dk EXCEPT !.salud = HealthTarget(dk.energia_pct)]

-----------------------------------------------------------------------------
(* The Simulator: simulator.Simulator.  A simulator value is
   [donkey, route, index, visited, state, log, raised]; index counts from 0
   as in the code, so route[index] of the code is At(route, index). *)

At(seq, i) == seq[i + 1]

\* list.insert(i, x) for 0 <= i <= len
Insert(seq, i, x) == SubSeq(seq, 1, i) \o <<x>> \o SubSeq(seq, i + 1, Len(seq))

\* Simulator.__init__
NewSimulator(dk, rt) ==
    [donkey |-> dk, route |-> rt, index |-> 0, visited |-> {},
     state |-> [current_star |-> rt[1],
                energy_pct |-> dk.energia_pct,
                pasto_kg |-> dk.pasto_kg,
                life_remaining |-> Max(0, dk.vida_maxima - dk.edad),
                tick |-> 0, finished |-> FALSE, dead |-> FALSE,
                stars_log |-> <<>>],
     log |-> <<>>, raised |-> FALSE]

\* a recharge that does not cap energy at 100
apply_hypergiant_uncapped(s, star_id) ==
    IF star_id \in StarIds /\ stars[star_id].hypergiant
    THEN LET cfg == s.donkey.sim_config
             recharge_pct == Get(cfg, "hypergiantRechargePct", Half)
             pasto_mult == Get(cfg, "hypergiantPastoMultiplier", Fx(2))
         IN [s EXCEPT
               !.state.energy_pct = Mul(@, Scale + Max(0, recharge_pct)),
               !.state.pasto_kg = Mul(@, Max(Scale, pasto_mult))]
    ELSE s

apply_hypergiant(s, star_id) ==
    IF star_id \in StarIds /\ stars[star_id].hypergiant
    THEN LET cfg == s.donkey.sim_config
             recharge_pct == Get(cfg, "hypergiantRechargePct", Half)
             pasto_mult == Get(cfg, "hypergiantPastoMultiplier", Fx(2))
         IN [s EXCEPT
               !.state.energy_pct =
                   Min(Hundred, Mul(@, Scale + Max(0, recharge_pct))),
               !.state.pasto_kg = Mul(@, Max(Scale, pasto_mult))]
    ELSE s

\* a movement that does not clamp energy and life at zero
consume_movement_unclamped(s, distance) ==
    LET cfg == s.donkey.sim_config
        factors == Get(cfg, "movementCostFactorByHealth", NoConfig)
        factor_salud == Get(factors, s.donkey.salud, Scale)
        energy == s.state.energy_pct - Mul(distance, factor_salud)
    IN [s EXCEPT
          !.state.life_remaining = @ - distance,
          !.state.energy_pct = energy,
          !.donkey = update_health_by_energy([@ EXCEPT !.energia_pct = energy])]

\* a movement that gives the distance back as life
consume_movement_restoring(s, distance) ==
    LET cfg == s.donkey.sim_config
        factors == Get(cfg, "movementCostFactorByHealth", NoConfig)
        factor_salud == Get(factors, s.donkey.salud, Scale)
        energy == Max(0, s.state.energy_pct - Mul(distance, factor_salud))
    IN [s EXCEPT
          !.state.life_remaining = Max(0, @ + distance),
          !.state.energy_pct = energy,
          !.donkey = update_health_by_energy([@ EXCEPT !.energia_pct = energy])]

consume_movement(s, distance) ==
    LET cfg == s.donkey.sim_config
        factors == Get(cfg, "movementCostFactorByHealth", NoConfig)
        factor_salud == Get(factors, s.donkey.salud, Scale)
        energy == Max(0, s.state.energy_pct - Mul(distance, factor_salud))
    IN [s EXCEPT
          !.state.life_remaining = Max(0, @ - distance),
          !.state.energy_pct = energy,
          !.donkey = update_health_by_energy([@ EXCEPT !.energia_pct = energy])]

\* a visit that eats whatever the energy on arrival
visit_star_always_eating(s, star_id) ==
    IF star_id \notin StarIds THEN s
    ELSE
      LET star == stars[star_id]
          st == s.state
          cfg == s.donkey.sim_config
          session_time == Max(Half, 2 * star.time_to_eat)
          threshold == Get(cfg, "eatEnergyThresholdPct", Fx(50))
          max_eat_frac == Get(cfg, "maxEatPortionFraction", Half)
          portion_eat == Mul(session_time, Max(0, Min(Scale, max_eat_frac)))
          portion_invest == Max(0, session_time - portion_eat)
          kg_possible == Div(portion_eat, Max(Tenth, star.time_to_eat))
          kg_eaten == Min(st.pasto_kg, kg_possible)
          gain_per_kg == Mul(energy_gain_per_kg(s.donkey),
                             Scale + Max(0, star.energy_bonus_pct))
          energy_gain == Mul(kg_eaten, gain_per_kg)
          pasto == Max(0, st.pasto_kg - kg_eaten)
          invest_energy_cost == Mul(star.investigation_energy_cost, portion_invest)
          energy == Max(0, Min(Hundred, st.energy_pct - invest_energy_cost + energy_gain))
          life == Max(0, st.life_remaining + star.life_delta)
          dk == update_health_by_energy(
                    [apply_health_modifier(s.donkey, star.health_modifier)
                        EXCEPT !.energia_pct = energy])
          s1 == apply_hypergiant(
                    [s EXCEPT !.state.pasto_kg = pasto,
                              !.state.energy_pct = energy,
                              !.state.life_remaining = life,
                              !.donkey = dk],
                    star_id)
          entry == [star |-> star_id,
                    kg_eaten |-> kg_eaten,
                    energy_gain |-> energy_gain,
                    invest_cost |-> invest_energy_cost,
                    portion_eat |-> portion_eat,
                    portion_invest |-> portion_invest,
                    energy_before |-> st.energy_pct,
                    pasto_before |-> st.pasto_kg,
                    life_before |-> st.life_remaining,
                    salud_before |-> s.donkey.salud,
                    energy_after |-> s1.state.energy_pct,
                    pasto_after |-> s1.state.pasto_kg,
                    life_after |-> s1.state.life_remaining,
                    salud_after |-> s1.donkey.salud,
                    life_delta |-> star.life_delta,
                    hypergiant |-> star.hypergiant]
      IN [s1 EXCEPT !.state.stars_log = Append(@, entry)]

visit_star(s, star_id) ==
    IF star_id \notin StarIds THEN s
    ELSE
      LET star == stars[star_id]
          st == s.state
          cfg == s.donkey.sim_config
          session_time == Max(Half, 2 * star.time_to_eat)
          threshold == Get(cfg, "eatEnergyThresholdPct", Fx(50))
          max_eat_frac == Get(cfg, "maxEatPortionFraction", Half)
          portion_eat == IF st.energy_pct < threshold
                         THEN Mul(session_time, Max(0, Min(Scale, max_eat_frac)))
                         ELSE 0
          portion_invest == Max(0, session_time - portion_eat)
          kg_possible == Div(portion_eat, Max(Tenth, star.time_to_eat))
          kg_eaten == Min(st.pasto_kg, kg_possible)
          gain_per_kg == Mul(energy_gain_per_kg(s.donkey),
                             Scale + Max(0, star.energy_bonus_pct))
          energy_gain == Mul(kg_eaten, gain_per_kg)
          pasto == Max(0, st.pasto_kg - kg_eaten)
          invest_energy_cost == Mul(star.investigation_energy_cost, portion_invest)
          energy == Max(0, Min(Hundred, st.energy_pct - invest_energy_cost + energy_gain))
          life == Max(0, st.life_remaining + star.life_delta)
          dk == update_health_by_energy(
                    [apply_health_modifier(s.donkey, star.health_modifier)
                        EXCEPT !.energia_pct = energy])
          s1 == apply_hypergiant(
                    [s EXCEPT !.state.pasto_kg = pasto,
                              !.state.energy_pct = energy,
                              !.state.life_remaining = life,
                              !.donkey = dk],
                    star_id)
          entry == [star |-> star_id,
                    kg_eaten |-> kg_eaten,
                    energy_gain |-> energy_gain,
                    invest_cost |-> invest_energy_cost,
                    portion_eat |-> portion_eat,
                    portion_invest |-> portion_invest,
                    energy_before |-> st.energy_pct,
                    pasto_before |-> st.pasto_kg,
                    life_before |-> st.life_remaining,
                    salud_before |-> s.donkey.salud,
                    energy_after |-> s1.state.energy_pct,
                    pasto_after |-> s1.state.pasto_kg,
                    life_after |-> s1.state.life_remaining,
                    salud_after |-> s1.donkey.salud,
                    life_delta |-> star.life_delta,
                    hypergiant |-> star.hypergiant]
      IN [s1 EXCEPT !.state.stars_log = Append(@, entry)]

\* _log_event; extra is a dict merged into the entry
log_event(s, kind, star_id, extra) ==
    LET entry == [tick |-> s.state.tick,
                  event |-> kind,
                  star |-> star_id,
                  energy_pct |-> s.state.energy_pct,
                  pasto_kg |-> s.state.pasto_kg,
                  life_remaining |-> s.state.life_remaining,
                  hypergiant |-> IF star_id \in StarIds
                                 THEN stars[star_id].hypergiant ELSE FALSE]
    IN [s EXCEPT !.log = Append(@, Merge(entry, extra))]

NoExtra == [k \in {} |-> 0]

\* the first-visit guard of step and teleport_and_visit
VisitOnce(s, star_id) ==
    IF star_id \notin s.visited
    THEN [visit_star(s, star_id) EXCEPT !.visited = @ \cup {star_id}]
    ELSE s

\* the death check at the end of a movement step
CheckDeath(s, dst, distance) ==
    IF s.state.energy_pct <= 0 \/ s.state.life_remaining <= 0
    THEN log_event([s EXCEPT !.state.dead = TRUE, !.state.finished = TRUE],
                   "death", dst, NoExtra)
    ELSE log_event(s, "visit", dst, [k \in {"distance"} |-> distance])

\* the final-visit branch of step
FinalVisit(s) ==
    LET here == At(s.route, s.index)
    IN log_event([visit_star(s, here) EXCEPT !.state.finished = TRUE],
                 "finish", here, NoExtra)

\* an unreachable-destination branch that logs but does not finish
BlockedRouteNoFinish(s, src) ==
    log_event(s, "blocked_route", src, NoExtra)

\* the unreachable-destination branch of step
BlockedRoute(s, src) ==
    log_event([s EXCEPT !.state.finished = TRUE], "blocked_route", src, NoExtra)

\* the early return of step
StepGuard(s) == s.state.finished \/ s.state.dead

step(s0, adj) ==
    LET s == [s0 EXCEPT !.raised = FALSE]
    IN
    IF StepGuard(s) THEN s
    ELSE IF s.index >= Len(s.route) - 1 THEN FinalVisit(s)
    ELSE
      LET src == At(s.route, s.index)
          dst == At(s.route, s.index + 1)
      IN IF DijkstraRaises(src) THEN [s EXCEPT !.raised = TRUE]
         ELSE
           LET dist_map == dijkstra(adj, src, FALSE).dist
           IN IF dst \notin DOMAIN dist_map
              THEN BlockedRoute(s, src)
              ELSE
                LET distance == dist_map[dst]
                    moved == consume_movement(s, distance)
                    arrived == [moved EXCEPT !.index = @ + 1,
                                             !.state.current_star = dst]
                    seen == VisitOnce(arrived, dst)
                    ticked == [seen EXCEPT !.state.tick = @ + 1]
                IN CheckDeath(ticked, dst, distance)

\* run_all: the result of the loop and the number of step() calls it made
RECURSIVE RunLoop(_, _, _)
RunLoop(s, adj, calls) ==
    IF s.state.finished \/ s.state.dead \/ s.raised \/ calls >= MaxRunCalls
    THEN [sim |-> s, calls |-> calls]
    ELSE RunLoop(step(s, adj), adj, calls + 1)

run_all(s0, adj) == RunLoop([s0 EXCEPT !.raised = FALSE], adj, 0)

\* an early return that forgets the finished flag
TeleportGuardDeadOnly(s) == s.state.dead

\* the early return of teleport_and_visit
TeleportGuard(s) == s.state.finished \/ s.state.dead

\* a teleport that counts as a move: it advances tick as step does
teleport_and_visit_ticking(s0, dest_star_id) ==
    LET s == [s0 EXCEPT !.raised = FALSE]
    IN
    IF TeleportGuard(s) THEN s
    ELSE
      LET newRoute == Insert(s.route, s.index + 1, dest_star_id)
          moved == [s EXCEPT !.route = newRoute,
                             !.index = Min(@ + 1, Len(newRoute) - 1),
                             !.state.current_star = dest_star_id,
                             !.state.tick = @ + 1]
      IN log_event(VisitOnce(moved, dest_star_id), "teleport", dest_star_id, NoExtra)

teleport_and_visit(s0, dest_star_id) ==
    LET s == [s0 EXCEPT !.raised = FALSE]
    IN
    IF TeleportGuard(s) THEN s
    ELSE
      LET newRoute == Insert(s.route, s.index + 1, dest_star_id)
          moved == [s EXCEPT !.route = newRoute,
                             !.index = Min(@ + 1, Len(newRoute) - 1),
                             !.state.current_star = dest_star_id]
      IN log_event(VisitOnce(moved, dest_star_id), "teleport", dest_star_id, NoExtra)

-----------------------------------------------------------------------------
(* Route planners: planner.py.  Every planner returns [route, cost]; the
   searches with a time ceiling also report how deep they went.  The clock
   is the number of timed_out() checks that still answer "no": time only
   moves forward, so once a check answers "yes" every later one does. *)

\* a source test that accepts every id
PlannerNeverRaises(source) == source \notin Ids \cup StarIds

\* every planner and dijkstra raise ValueError when the source is not a key
\* of graph.stars
PlannerRaises(source) == source \notin StarIds

SeqToSet(seq) == {seq[i] : i \in 1..Len(seq)}

\* the candidate a greedy loop keeps: the comparison with the best so far is
\* strict and the set of small ints is iterated in ascending order, so among
\* equal costs the least id stays
LeastOf(C, cost) ==
    CHOOSE v \in C : \A w \in C : cost[v] < cost[w] \/ (cost[v] = cost[w] /\ v <= w)

\* the route after a leg: every node of path[1:] is appended, visited or not
ExtendRoute(rt, path, current, best_node) ==
    IF path # <<>> /\ path[1] = current THEN rt \o Tail(path)
    ELSE Append(rt, best_node)

RECURSIVE GreedyLoop(_, _, _, _, _, _, _, _)
GreedyLoop(adj, include_blocked, budget, seen, rt, used, current, remaining) ==
    IF remaining = {} THEN [route |-> rt, cost |-> used]
    ELSE
      LET r == dijkstra(adj, current, include_blocked)
          fits == {v \in remaining \cap DOMAIN r.dist : used + r.dist[v] <= budget}
      IN IF fits = {} THEN [route |-> rt, cost |-> used]
         ELSE
           LET best_node == LeastOf(fits, r.dist)
               path == reconstruct_path(r.parent, best_node)
           IN GreedyLoop(adj, include_blocked, budget,
                         seen \cup SeqToSet(path) \cup {best_node},
                         ExtendRoute(rt, path, current, best_node),
                         used + r.dist[best_node], best_node,
                         remaining \ {best_node})

greedy_max_visits(adj, source, budget, include_blocked) ==
    IF budget <= 0 THEN [route |-> <<source>>, cost |-> 0]
    ELSE GreedyLoop(adj, include_blocked, budget, {source}, <<source>>, 0,
                    source, StarIds \ {source})

\* a budget that forgets the life left
energy_budget_without_life(dk) ==
    Max(0, dk.energia_pct + Mul(dk.pasto_kg, energy_gain_per_kg(dk)))

energy_budget_from_donkey(dk) ==
    LET presupuesto_energia == dk.energia_pct + Mul(dk.pasto_kg, energy_gain_per_kg(dk))
        vida_restante == Max(0, dk.vida_maxima - dk.edad)
    IN Max(0, Min(presupuesto_energia, vida_restante))

compute_energy_budget(dk) ==
    Max(0, dk.energia_pct + Mul(dk.pasto_kg, energy_gain_per_kg(dk)))

\* a life budget that forgets the age
compute_life_budget_ignoring_age(dk) == Max(0, dk.vida_maxima)

compute_life_budget(dk) == Max(0, dk.vida_maxima - dk.edad)

\* float(factors.get(salud, 1.0)) never raises: the table of defaults in the
\* except branch is not reached
movement_energy_factor(dk) ==
    Get(Get(dk.sim_config, "movementCostFactorByHealth", NoConfig), dk.salud, Scale)

estimate_static_visit_cost(star) ==
    Max(0, Mul(star.investigation_energy_cost, Mul(star.time_to_eat, Half)))

\* a hypergiant effect that also sets the health the star gives
PlanRechargeWithHealth(dk, star) ==
    IF star.hypergiant
    THEN [dk EXCEPT !.energia_pct = Min(Hundred, Mul(@, Scale + Half)),
                    !.pasto_kg = 2 * @,
                    !.salud = star.health_modifier]
    ELSE dk

\* the hypergiant effect inside greedy_max_visits_enhanced: it writes the
\* Donkey it was given
PlanRecharge(dk, star) ==
    IF star.hypergiant
    THEN [dk EXCEPT !.energia_pct = Min(Hundred, Mul(@, Scale + Half)),
                    !.pasto_kg = 2 * @]
    ELSE dk

RECURSIVE EnhancedLoop(_, _, _, _, _, _, _, _, _)
EnhancedLoop(adj, include_blocked, dk, budget, seen, rt, used, current, remaining) ==
    IF remaining = {} THEN [route |-> rt, cost |-> used, donkey |-> dk]
    ELSE
      LET r == dijkstra(adj, current, include_blocked)
          total == [v \in remaining \cap DOMAIN r.dist |->
                      r.dist[v] + estimate_static_visit_cost(stars[v])]
          fits == {v \in DOMAIN total : used + total[v] <= budget}
      IN IF fits = {} THEN [route |-> rt, cost |-> used, donkey |-> dk]
         ELSE
           LET best_node == LeastOf(fits, total)
               path == reconstruct_path(r.parent, best_node)
               dk2 == PlanRecharge(dk, stars[best_node])
               budget2 == IF stars[best_node].hypergiant
                          THEN energy_budget_from_donkey(dk2) ELSE budget
           IN EnhancedLoop(adj, include_blocked, dk2, budget2,
                           seen \cup SeqToSet(path) \cup {best_node},
                           ExtendRoute(rt, path, current, best_node),
                           used + total[best_node], best_node,
                           remaining \ {best_node})

\* returns the Donkey as the call leaves it next to the plan
greedy_max_visits_enhanced(adj, source, dk, include_blocked) ==
    IF energy_budget_from_donkey(dk) <= 0
    THEN [route |-> <<source>>, cost |-> 0, donkey |-> dk]
    ELSE EnhancedLoop(adj, include_blocked, dk, energy_budget_from_donkey(dk),
                      {source}, <<source>>, 0, source, StarIds \ {source})

RECURSIVE PureLoop(_, _, _, _, _, _, _, _, _, _)
PureLoop(adj, include_blocked, dk, energy_budget, life_budget, rt, used_energy, used_life, current, remaining) ==
    IF remaining = {} THEN [route |-> rt, cost |-> used_energy]
    ELSE
      LET dist == dijkstra(adj, current, include_blocked).dist
          cand == remaining \cap DOMAIN dist
          energy_need == [v \in cand |->
                            Mul(movement_energy_factor(dk), dist[v])
                            + estimate_static_visit_cost(stars[v])]
          total == [v \in cand |-> energy_need[v] + dist[v]]
          fits == {v \in cand : /\ used_energy + energy_need[v] <= energy_budget
                                /\ used_life + dist[v] <= life_budget}
      IN IF fits = {} THEN [route |-> rt, cost |-> used_energy]
         ELSE
           LET best_node == LeastOf(fits, total)
           IN PureLoop(adj, include_blocked, dk, energy_budget, life_budget,
                       Append(rt, best_node), used_energy + energy_need[best_node],
                       used_life + dist[best_node], best_node,
                       remaining \ {best_node})

\* works on replace(donkey), a copy
greedy_max_visits_pure(adj, source, dk, include_blocked) ==
    IF compute_energy_budget(dk) <= 0 \/ compute_life_budget(dk) <= 0
    THEN [route |-> <<source>>, cost |-> 0]
    ELSE PureLoop(adj, include_blocked, dk, compute_energy_budget(dk),
                  compute_life_budget(dk), <<source>>, 0, 0, source,
                  StarIds \ {source})

\* checks left on a clock that never reaches the ceiling
NoDeadline == -1

TimedOut(checks) == checks = 0
Tick(checks) == IF checks = NoDeadline THEN checks ELSE checks - 1

\* list.sort(key=...) is stable: an element goes behind the elements whose
\* key is not greater
KeyLess(a, b) == a[1] < b[1] \/ (a[1] = b[1] /\ a[2] < b[2])

RECURSIVE InsertByKey(_, _)
InsertByKey(sorted, x) ==
    IF sorted = <<>> THEN <<x>>
    ELSE IF KeyLess(x.key, Head(sorted).key) THEN <<x>> \o sorted
    ELSE <<Head(sorted)>> \o InsertByKey(Tail(sorted), x)

RECURSIVE StableSort(_)
StableSort(seq) ==
    IF seq = <<>> THEN <<>>
    ELSE InsertByKey(StableSort(SubSeq(seq, 1, Len(seq) - 1)), seq[Len(seq)])

\* graph.stars.keys() in iteration order: the stars are inserted by id
StarOrder == [i \in 1..Cardinality(StarIds) |->
                 CHOOSE x \in StarIds : Cardinality({y \in StarIds : y < x}) = i - 1]

\* a candidate test that lets the search return to visited stars
IsCandidateRevisiting(r, current, seen, life_left, v) ==
    /\ v \in DOMAIN r.dist
    /\ r.dist[v] <= life_left
    /\ reconstruct_path(r.parent, v) # <<>>
    /\ reconstruct_path(r.parent, v)[1] = current

\* a candidate test that forgets the life left
IsCandidateBeyondLife(r, current, seen, life_left, v) ==
    /\ v \notin seen
    /\ v \in DOMAIN r.dist
    /\ reconstruct_path(r.parent, v) # <<>>
    /\ reconstruct_path(r.parent, v)[1] = current
    /\ SeqToSet(Tail(reconstruct_path(r.parent, v))) \cap seen = {}

\* a candidate test that lets a leg pass through visited stars
IsCandidateAnyPath(r, current, seen, life_left, v) ==
    /\ v \notin seen
    /\ v \in DOMAIN r.dist
    /\ r.dist[v] <= life_left
    /\ reconstruct_path(r.parent, v) # <<>>
    /\ reconstruct_path(r.parent, v)[1] = current

\* the candidates of one expansion, sorted by distance: unvisited stars
\* within the life left whose shortest path meets no visited star
IsCandidate(r, current, seen, life_left, v) ==
    /\ v \notin seen
    /\ v \in DOMAIN r.dist
    /\ r.dist[v] <= life_left
    /\ reconstruct_path(r.parent, v) # <<>>
    /\ reconstruct_path(r.parent, v)[1] = current
    /\ SeqToSet(Tail(reconstruct_path(r.parent, v))) \cap seen = {}

Candidate(r, v) ==
    [key |-> <<r.dist[v], 0>>, d |-> r.dist[v], v |-> v,
     path_nodes |-> Tail(reconstruct_path(r.parent, v))]

CandidatesOf(r, current, seen, life_left) ==
    LET ok(v) == IsCandidate(r, current, seen, life_left, v)
    IN [i \in 1..Len(SelectSeq(StarOrder, ok)) |->
          Candidate(r, SelectSeq(StarOrder, ok)[i])]

Candidates(adj, include_blocked, current, seen, life_left) ==
    StableSort(CandidatesOf(dijkstra(adj, current, include_blocked), current,
                            seen, life_left))

\* the running best: more stars, or as many at a smaller distance
Better(rt, used, best) ==
    Len(rt) > Len(best.route) \/ (Len(rt) = Len(best.route) /\ used < best.cost)

\* dfs of max_stars_before_death and of optimal_max_visits_life; acc is
\* [route, cost, checks, levels]: the best so far, the clock and the deepest
\* level entered
RECURSIVE Dfs(_, _, _, _, _, _, _, _, _)
RECURSIVE DfsEach(_, _, _, _, _, _, _, _, _)
\* a search that follows the nearest candidate only and never backtracks
DfsNearestOnly(adj, include_blocked, cands, seen, life_left, rt, used_dist, acc, level) ==
    IF cands = <<>> THEN acc
    ELSE Dfs(adj, include_blocked, Head(cands).v,
             seen \cup SeqToSet(Head(cands).path_nodes),
             life_left - Head(cands).d, rt \o Head(cands).path_nodes,
             used_dist + Head(cands).d, acc, level + 1)

Dfs(adj, include_blocked, current, seen, life_left, rt, used_dist, acc, level) ==
    IF TimedOut(acc.checks) \/ level > MaxLevels THEN acc
    ELSE
      LET a1 == [acc EXCEPT !.checks = Tick(@), !.levels = Max(@, level)]
          a2 == IF Better(rt, used_dist, a1)
                THEN [a1 EXCEPT !.route = rt, !.cost = used_dist] ELSE a1
      IN DfsEach(adj, include_blocked,
                 Candidates(adj, include_blocked, current, seen, life_left),
                 seen, life_left, rt, used_dist, a2, level)

DfsEach(adj, include_blocked, cands, seen, life_left, rt, used_dist, acc, level) ==
    IF cands = <<>> THEN acc
    ELSE
      LET c == Head(cands)
          after == Dfs(adj, include_blocked, c.v, seen \cup SeqToSet(c.path_nodes),
                       life_left - c.d, rt \o c.path_nodes, used_dist + c.d,
                       acc, level + 1)
      IN DfsEach(adj, include_blocked, Tail(cands), seen, life_left, rt,
                 used_dist, after, level)

max_stars_before_death(adj, source, dk, include_blocked, checks) ==
    LET vida_restante == Max(0, dk.vida_maxima - dk.edad)
    IN IF vida_restante <= 0
       THEN [route |-> <<source>>, cost |-> 0, checks |-> checks, levels |-> 0]
       ELSE Dfs(adj, include_blocked, source, {source}, vida_restante,
                <<source>>, 0,
                [route |-> <<source>>, cost |-> 0, checks |-> checks, levels |-> 0],
                1)

\* a candidate that keeps the star the leg starts from among its waypoints
CandidateOfWholePath(r, v) ==
    [key |-> <<r.dist[v], 0>>, d |-> r.dist[v], v |-> v,
     path |-> <<Head(reconstruct_path(r.parent, v))>> \o reconstruct_path(r.parent, v)]

\* optimal_max_visits_life keeps the whole path of a candidate and drops its
\* first star when it recurses
CandidateWithPath(r, v) ==
    [key |-> <<r.dist[v], 0>>, d |-> r.dist[v], v |-> v,
     path |-> reconstruct_path(r.parent, v)]

CandidatesWithPathOf(r, current, seen, life_left) ==
    LET ok(v) == IsCandidate(r, current, seen, life_left, v)
    IN [i \in 1..Len(SelectSeq(StarOrder, ok)) |->
          CandidateWithPath(r, SelectSeq(StarOrder, ok)[i])]

CandidatesWithPath(adj, include_blocked, current, seen, life_left) ==
    StableSort(CandidatesWithPathOf(dijkstra(adj, current, include_blocked),
                                    current, seen, life_left))

\* dfs of optimal_max_visits_life
RECURSIVE LifeDfs(_, _, _, _, _, _, _, _, _)
RECURSIVE LifeDfsEach(_, _, _, _, _, _, _, _, _)
LifeDfs(adj, include_blocked, current, seen, life_left, rt, used_dist, acc, level) ==
    IF TimedOut(acc.checks) \/ level > MaxLevels THEN acc
    ELSE LifeDfsEach(adj, include_blocked,
                     CandidatesWithPath(adj, include_blocked, current, seen, life_left),
                     seen, life_left, rt, used_dist,
                     [route |-> IF Better(rt, used_dist, acc) THEN rt ELSE acc.route,
                      cost |-> IF Better(rt, used_dist, acc) THEN used_dist ELSE acc.cost,
                      checks |-> Tick(acc.checks),
                      levels |-> Max(acc.levels, level)],
                     level)

LifeDfsEach(adj, include_blocked, cands, seen, life_left, rt, used_dist, acc, level) ==
    IF cands = <<>> THEN acc
    ELSE LifeDfsEach(adj, include_blocked, Tail(cands), seen, life_left, rt, used_dist,
                     LifeDfs(adj, include_blocked, Head(cands).v,
                             seen \cup SeqToSet(Tail(Head(cands).path)),
                             life_left - Head(cands).d,
                             rt \o Tail(Head(cands).path),
                             used_dist + Head(cands).d, acc, level + 1),
                     level)

optimal_max_visits_life(adj, source, dk, include_blocked, checks) ==
    LET vida_restante == Max(0, dk.vida_maxima - dk.edad)
    IN IF vida_restante <= 0
       THEN [route |-> <<source>>, cost |-> 0, checks |-> checks, levels |-> 0]
       ELSE LifeDfs(adj, include_blocked, source, {source}, vida_restante,
                    <<source>>, 0,
                    [route |-> <<source>>, cost |-> 0, checks |-> checks, levels |-> 0],
                    1)

\* the State a candidate adds to the next beam
\* a child state that forgets the distance of its leg
ChildStateWithoutCost(st, c) ==
    [current |-> c.v,
     visited |-> st.visited \cup SeqToSet(c.path_nodes),
     route |-> st.route \o c.path_nodes,
     life_left |-> st.life_left,
     used |-> st.used,
     key |-> <<0 - Len(st.route \o c.path_nodes), st.used>>]

ChildState(st, c) ==
    [current |-> c.v,
     visited |-> st.visited \cup SeqToSet(c.path_nodes),
     route |-> st.route \o c.path_nodes,
     life_left |-> st.life_left - c.d,
     used |-> st.used + c.d,
     key |-> <<0 - Len(st.route \o c.path_nodes), st.used + c.d>>]

\* one state of the beam: the best is updated, the first per_state
\* candidates go to next_beam; acc is [route, cost, next_beam]
ExpandState(acc, st, cands, per_state) ==
    [route |-> IF Better(st.route, st.used, acc) THEN st.route ELSE acc.route,
     cost |-> IF Better(st.route, st.used, acc) THEN st.used ELSE acc.cost,
     next_beam |-> acc.next_beam \o
                   [i \in 1..Min(per_state, Len(cands)) |-> ChildState(st, cands[i])]]

RECURSIVE ExpandBeam(_, _, _, _, _)
ExpandBeam(adj, include_blocked, todo, per_state, acc) ==
    IF todo = <<>> THEN acc
    ELSE ExpandBeam(adj, include_blocked, Tail(todo), per_state,
                    ExpandState(acc, Head(todo),
                                Candidates(adj, include_blocked, Head(todo).current,
                                           Head(todo).visited, Head(todo).life_left),
                                per_state))

RECURSIVE BeamLoop(_, _, _, _, _, _, _)
RECURSIVE BeamRound(_, _, _, _, _, _)
\* while beam and not timed_out()
BeamLoop(adj, include_blocked, beam, beam_width, best, checks, rounds) ==
    IF beam = <<>> \/ TimedOut(checks) \/ rounds >= MaxLevels
    THEN [route |-> best.route, cost |-> best.cost, checks |-> checks,
          levels |-> rounds]
    ELSE BeamRound(adj, include_blocked, beam_width, Tick(checks), rounds + 1,
                   ExpandBeam(adj, include_blocked, beam,
                              Max(1, beam_width \div Max(1, Len(beam))),
                              [route |-> best.route, cost |-> best.cost,
                               next_beam |-> <<>>]))

\* the end of a round: stop on an empty next_beam, else keep the beam_width
\* longest (then cheapest) routes
BeamRound(adj, include_blocked, beam_width, checks, rounds, e) ==
    IF e.next_beam = <<>>
    THEN [route |-> e.route, cost |-> e.cost, checks |-> checks, levels |-> rounds]
    ELSE BeamLoop(adj, include_blocked,
                  SubSeq(StableSort(e.next_beam), 1, Min(beam_width, Len(e.next_beam))),
                  beam_width, [route |-> e.route, cost |-> e.cost], checks, rounds)

optimal_max_visits_life_beam(adj, source, dk, include_blocked, checks, beam_width) ==
    LET vida_restante == Max(0, dk.vida_maxima - dk.edad)
    IN IF vida_restante <= 0
       THEN [route |-> <<source>>, cost |-> 0, checks |-> checks, levels |-> 0]
       ELSE BeamLoop(adj, include_blocked,
                     <<[current |-> source, visited |-> {source},
                        route |-> <<source>>, life_left |-> vida_restante,
                        used |-> 0, key |-> <<-1, 0>>]>>,
                     beam_width, [route |-> <<source>>, cost |-> 0], checks, 0)

-----------------------------------------------------------------------------
(* The simulation as a state machine: a Simulator built on the loaded graph,
   driven by step, run_all, teleport_and_visit and external edge blocks *)

\* no planner has been called
NoPlan == [planner |-> "none"]

\* the membership data of the current state
TheCatalog == [constellations |-> constellations,
               star_constellations |-> star_constellations,
               shared |-> shared]

\* the Graph object of the current state
TheGraph == [adjacency |-> adjacency, order |-> order, links |-> links]

Sim == [donkey |-> donkey, route |-> route, index |-> index,
        visited |-> visited, state |-> state, log |-> log, raised |-> raised]

SetSim(s) ==
    /\ donkey' = s.donkey
    /\ route' = s.route
    /\ index' = s.index
    /\ visited' = s.visited
    /\ state' = s.state
    /\ log' = s.log
    /\ raised' = s.raised

RECURSIVE SeqsUpTo(_, _)
SeqsUpTo(S, n) ==
    IF n = 0 THEN {<<>>}
    ELSE LET shorter == SeqsUpTo(S, n - 1)
         IN shorter \cup {Append(q, x) : q \in shorter, x \in S}

\* planned sequences: non-empty, as Simulator.__init__ requires
Routes == SeqsUpTo(Ids, MaxRouteLen) \ {<<>>}

Donkey(h, e, p, edad, vida, c) ==
    [salud |-> h, energia_pct |-> e, pasto_kg |-> p, edad |-> edad,
     vida_maxima |-> vida, sim_config |-> c]

\* the Agents a simulation is built for: burro.json contents
Donkeys ==
    {Donkey("Excelente", Fx(100), 0, 0, Fx(200), CustomConfig),
     Donkey("Regular", Fx(40), Fx(3), Fx(5), Fx(30), NoConfig),
     Donkey("Mala", Fx(40), 0, 0, Fx(200), NoConfig),
     Donkey("Excelente", Fx(100), Fx(3), Fx(5), Fx(30), CustomConfig)}

\* the edges the presentation layer toggles, one of them absent from the graph
TogglePairs == {<<1, 2>>, <<3, 1>>, <<1, UnknownId>>}

RECURSIVE CountEvents(_, _)
CountEvents(lg, kind) ==
    IF lg = <<>> THEN 0
    ELSE (IF Head(lg).event = kind THEN 1 ELSE 0) + CountEvents(Tail(lg), kind)

Init ==
    /\ adjacency = LoadedGraph.adjacency
    /\ order = LoadedGraph.order
    /\ links = LoadedGraph.links
    /\ \E dk \in Donkeys, rt \in Routes :
          LET s == NewSimulator(dk, rt)
          IN /\ donkey = s.donkey
             /\ route = s.route
             /\ index = s.index
             /\ visited = s.visited
             /\ state = s.state
             /\ log = s.log
             /\ raised = s.raised
    /\ called = "init"
    /\ constellations = LoadedCatalog.constellations
    /\ star_constellations = LoadedCatalog.star_constellations
    /\ shared = LoadedCatalog.shared
    /\ plan = NoPlan
    /\ stars = StarData

Step ==
    /\ SetSim(step(Sim, adjacency))
    /\ called' = "step"
    /\ UNCHANGED <<adjacency, order, links>>
    /\ UNCHANGED <<constellations, star_constellations, shared, plan, stars>>

RunAll ==
    /\ SetSim(run_all(Sim, adjacency).sim)
    /\ called' = "run_all"
    /\ UNCHANGED <<adjacency, order, links>>
    /\ UNCHANGED <<constellations, star_constellations, shared, plan, stars>>

TeleportAndVisit(d) ==
    /\ CountEvents(log, "teleport") < MaxTeleports
    /\ SetSim(teleport_and_visit(Sim, d))
    /\ called' = "teleport_and_visit"
    /\ UNCHANGED <<adjacency, order, links>>
    /\ UNCHANGED <<constellations, star_constellations, shared, plan, stars>>

ToggleEdgeBlock(u, v, b) ==
    /\ LET r == toggle_edge_block(TheGraph, u, v, b)
       IN /\ adjacency' = r.graph.adjacency
          /\ order' = r.graph.order
          /\ links' = r.graph.links
    /\ raised' = FALSE
    /\ called' = "toggle_edge_block"
    /\ UNCHANGED <<donkey, route, index, visited, state, log>>
    /\ UNCHANGED <<constellations, star_constellations, shared, plan, stars>>

Next ==
    \/ Step
    \/ RunAll
    \/ \E d \in Ids : TeleportAndVisit(d)
    \/ \E e \in TogglePairs, b \in {"None", "True", "False"} :
          ToggleEdgeBlock(e[1], e[2], b)

Spec == Init /\ [][Next]_vars

-----------------------------------------------------------------------------
(* The Graph on its own: built from nothing by add_edge calls, completed by
   ensure_bidirectional and toggled, in any order.  The Simulator is not
   driven. *)

\* the arguments of the add_edge calls, <<u, v, distance, blocked>>: a pair
\* declared from both ends with different distances, a detour 1-2-3 shorter
\* than the direct edge 1-3, the pair (1, 3) given twice with different
\* distances and flags, a self-loop and unknown ends
EdgeCalls ==
    {<<c[1], c[2], Fx(c[3]), b>> :
        c \in {<<1, 2, 10>>, <<2, 1, 30>>, <<2, 3, 10>>, <<3, 3, 10>>,
               <<1, UnknownId, 10>>, <<UnknownId, 1, 10>>},
        b \in BOOLEAN}
    \cup {<<1, 3, Fx(30), TRUE>>, <<1, 3, Fx(10), FALSE>>}

\* the pairs toggle_edge_block is called on
GraphTogglePairs == {<<1, 2>>, <<2, 3>>, <<3, 1>>, <<3, 3>>, <<1, UnknownId>>}

\* a Simulator that is constructed and never stepped
IdleSimulator == NewSimulator(Donkey("Mala", Fx(40), 0, 0, Fx(200), NoConfig), <<1>>)

GraphInit ==
    /\ adjacency = EmptyGraph.adjacency
    /\ order = EmptyGraph.order
    /\ links = EmptyGraph.links
    /\ donkey = IdleSimulator.donkey
    /\ route = IdleSimulator.route
    /\ index = IdleSimulator.index
    /\ visited = IdleSimulator.visited
    /\ state = IdleSimulator.state
    /\ log = IdleSimulator.log
    /\ raised = FALSE
    /\ called = "init"
    /\ constellations = LoadedCatalog.constellations
    /\ star_constellations = LoadedCatalog.star_constellations
    /\ shared = LoadedCatalog.shared
    /\ plan = NoPlan
    /\ stars = StarData

AddEdge(u, v, distance, blocked) ==
    /\ <<u, v>> \in DOMAIN adjacency \/ Len(order) < MaxEdges
    /\ IF AddEdgeRaises(u, v)
       THEN /\ raised' = TRUE
            /\ UNCHANGED <<adjacency, order, links>>
       ELSE LET g == add_edge(TheGraph, u, v, distance, blocked)
            IN /\ adjacency' = g.adjacency
               /\ order' = g.order
               /\ links' = g.links
               /\ raised' = FALSE
    /\ called' = "add_edge"
    /\ UNCHANGED <<donkey, route, index, visited, state, log>>
    /\ UNCHANGED <<constellations, star_constellations, shared, plan, stars>>

EnsureBidirectional(default_blocked) ==
    /\ LET g == ensure_bidirectional(TheGraph, default_blocked)
       IN /\ adjacency' = g.adjacency
          /\ order' = g.order
          /\ links' = g.links
    /\ raised' = FALSE
    /\ called' = "ensure_bidirectional"
    /\ UNCHANGED <<donkey, route, index, visited, state, log>>
    /\ UNCHANGED <<constellations, star_constellations, shared, plan, stars>>

GraphNext ==
    \/ \E c \in EdgeCalls : AddEdge(c[1], c[2], c[3], c[4])
    \/ \E default_blocked \in BOOLEAN : EnsureBidirectional(default_blocked)
    \/ \E e \in GraphTogglePairs, b \in {"None", "True", "False"} :
          ToggleEdgeBlock(e[1], e[2], b)

GraphSpec == GraphInit /\ [][GraphNext]_vars

-----------------------------------------------------------------------------
(* Constellation membership on its own: stars are registered in
   constellations and the shared flags are recomputed.  The flags the Star
   objects are constructed with come from outside and are arbitrary. *)

CatalogInit ==
    /\ adjacency = EmptyGraph.adjacency
    /\ order = EmptyGraph.order
    /\ links = EmptyGraph.links
    /\ donkey = IdleSimulator.donkey
    /\ route = IdleSimulator.route
    /\ index = IdleSimulator.index
    /\ visited = IdleSimulator.visited
    /\ state = IdleSimulator.state
    /\ log = IdleSimulator.log
    /\ raised = FALSE
    /\ called = "init"
    /\ constellations = EmptyCatalog.constellations
    /\ star_constellations = EmptyCatalog.star_constellations
    /\ shared \in [StarIds -> BOOLEAN]
    /\ plan = NoPlan
    /\ stars = StarData

SetCatalog(c) ==
    /\ constellations' = c.constellations
    /\ star_constellations' = c.star_constellations
    /\ shared' = c.shared

AddStar(id, constellation_name) ==
    /\ SetCatalog(add_star(TheCatalog, id, constellation_name))
    /\ raised' = FALSE
    /\ called' = "add_star"
    /\ UNCHANGED <<adjacency, order, links, donkey, route, index, visited,
                   state, log, plan, stars>>

RecomputeSharedFlags ==
    /\ SetCatalog(recompute_shared_flags(TheCatalog).catalog)
    /\ raised' = FALSE
    /\ called' = "recompute_shared_flags"
    /\ UNCHANGED <<adjacency, order, links, donkey, route, index, visited,
                   state, log, plan, stars>>

CatalogNext ==
    \/ \E id \in StarIds, n \in {"Alfa", "Beta", NoName} : AddStar(id, n)
    \/ RecomputeSharedFlags

CatalogSpec == CatalogInit /\ [][CatalogNext]_vars

-----------------------------------------------------------------------------
(* The planners as a state machine: a loaded graph and a Donkey, on which
   dijkstra and the six planners are called; plan holds the arguments and
   the result of the last call *)

\* edge lists as in galaxies.json: two stars and one edge of 10 (star 3 has
\* no link); star 1 between 2 and 3; the same with an edge 2-3 listed both
\* ways, blocked from 2 to 3 only; a triangle whose long side is open; a
\* triangle whose short side is blocked
PlanEdges ==
    { << <<1, 2, 10, FALSE>> >>,
      << <<1, 2, 10, FALSE>>, <<1, 3, 20, FALSE>> >>,
      << <<1, 2, 10, FALSE>>, <<1, 3, 20, FALSE>>, <<2, 3, 15, TRUE>>, <<3, 2, 15, FALSE>> >>,
      << <<1, 2, 10, FALSE>>, <<2, 3, 10, FALSE>>, <<1, 3, 30, FALSE>> >>,
      << <<1, 2, 10, FALSE>>, <<2, 3, 20, FALSE>>, <<1, 3, 5, TRUE>> >> }

PlanGraphs == {ensure_bidirectional(AddEdges(EmptyGraph, es), FALSE) : es \in PlanEdges}

\* life budgets 5, 20, 200 and 0, and a Donkey without energy
PlanDonkeys ==
    { Donkey("Excelente", Fx(100), 0, 0, Fx(5), NoConfig),
      Donkey("Excelente", Fx(100), 0, 0, Fx(20), NoConfig),
      Donkey("Buena", Fx(60), Fx(1), Fx(5), Fx(205), CustomConfig),
      Donkey("Mala", Fx(40), 0, Fx(30), Fx(30), NoConfig),
      Donkey("Muerto", 0, 0, 0, Fx(200), NoConfig) }

Budgets == {0 - Fx(5), 0, Fx(15), Fx(100)}
\* a ceiling reached at once, after one check, after MaxChecks checks, never
Deadlines == {0, 1, MaxChecks, NoDeadline}
\* beam_width: 10 unless the caller narrows it
BeamWidths == {1, 10}

\* a galaxy whose hypergiant is star 1, the star between 2 and 3 whose
\* research costs most, and a Donkey whose budget covers one visit
HypergiantOnTheWay ==
    [graph |-> ensure_bidirectional(AddEdges(EmptyGraph, << <<1, 2, 10, FALSE>>, <<2, 3, 20, FALSE>>, <<1, 3, 5, TRUE>> >>), FALSE),
     donkey |-> Donkey("Regular", Fx(40), Fx(1), 0, Fx(200), NoConfig),
     stars |-> [StarData EXCEPT ![1].hypergiant = TRUE, ![2].hypergiant = FALSE]]

\* the stars as the loader builds them, before any edit: no modifier
LoadedStars ==
    [id \in StarIds |-> [StarData[id] EXCEPT !.life_delta = 0, !.health_modifier = NoLabel, !.energy_bonus_pct = 0]]

\* the open triangle with the loader's stars, for a life budget of 20 and
\* one of 200
UneditedGalaxy ==
    {[graph |-> ensure_bidirectional(AddEdges(EmptyGraph, << <<1, 2, 10, FALSE>>, <<2, 3, 10, FALSE>>, <<1, 3, 30, FALSE>> >>), FALSE),
      donkey |-> Donkey("Excelente", Fx(100), 0, 0, vida, NoConfig),
      stars |-> LoadedStars] : vida \in {Fx(20), Fx(200)}}

PlanCases ==
    {[graph |-> g, donkey |-> dk, stars |-> StarData] : g \in PlanGraphs, dk \in PlanDonkeys}
    \cup {HypergiantOnTheWay} \cup UneditedGalaxy

PlanInit ==
    /\ \E c \in PlanCases :
          /\ adjacency = c.graph.adjacency
          /\ order = c.graph.order
          /\ links = c.graph.links
          /\ donkey = c.donkey
          /\ stars = c.stars
    /\ route = IdleSimulator.route
    /\ index = IdleSimulator.index
    /\ visited = IdleSimulator.visited
    /\ state = IdleSimulator.state
    /\ log = IdleSimulator.log
    /\ raised = FALSE
    /\ called = "init"
    /\ constellations = LoadedCatalog.constellations
    /\ star_constellations = LoadedCatalog.star_constellations
    /\ shared = LoadedCatalog.shared
    /\ plan = NoPlan

\* what a call leaves behind: ValueError, or the returned pair
Planned(name, source, include_blocked, r) ==
    /\ called' = name
    /\ raised' = PlannerRaises(source)
    /\ plan' = IF PlannerRaises(source)
               THEN [planner |-> name, source |-> source,
                     include_blocked |-> include_blocked]
               ELSE [planner |-> name, source |-> source,
                     include_blocked |-> include_blocked] @@ r
    /\ UNCHANGED <<adjacency, order, links, route, index, visited, state, log,
                   constellations, star_constellations, shared, stars>>

Dijkstra(source, include_blocked) ==
    /\ Planned("dijkstra", source, include_blocked,
               dijkstra(adjacency, source, include_blocked))
    /\ UNCHANGED donkey

GreedyMaxVisits(source, budget, include_blocked) ==
    /\ Planned("greedy_max_visits", source, include_blocked,
               [budget |-> budget]
               @@ greedy_max_visits(adjacency, source, budget, include_blocked))
    /\ UNCHANGED donkey

GreedyMaxVisitsEnhanced(source, include_blocked) ==
    /\ donkey.pasto_kg < Fx(MaxPasto)
    /\ LET r == greedy_max_visits_enhanced(adjacency, source, donkey, include_blocked)
       IN /\ Planned("greedy_max_visits_enhanced", source, include_blocked,
                     [route |-> r.route, cost |-> r.cost])
          /\ donkey' = IF PlannerRaises(source) THEN donkey ELSE r.donkey

GreedyMaxVisitsPure(source, include_blocked) ==
    /\ Planned("greedy_max_visits_pure", source, include_blocked,
               greedy_max_visits_pure(adjacency, source, donkey, include_blocked))
    /\ UNCHANGED donkey

MaxStarsBeforeDeath(source, include_blocked, checks) ==
    /\ Planned("max_stars_before_death", source, include_blocked,
               [deadline |-> checks]
               @@ max_stars_before_death(adjacency, source, donkey, include_blocked,
                                      checks))
    /\ UNCHANGED donkey

OptimalMaxVisitsLife(source, include_blocked, checks) ==
    /\ Planned("optimal_max_visits_life", source, include_blocked,
               [deadline |-> checks]
               @@ optimal_max_visits_life(adjacency, source, donkey, include_blocked,
                                       checks))
    /\ UNCHANGED donkey

OptimalMaxVisitsLifeBeam(source, include_blocked, checks, beam_width) ==
    /\ Planned("optimal_max_visits_life_beam", source, include_blocked,
               [deadline |-> checks, beam_width |-> beam_width]
               @@ optimal_max_visits_life_beam(adjacency, source, donkey,
                                               include_blocked, checks, beam_width))
    /\ UNCHANGED donkey

PlanNext ==
    \/ \E s \in Ids, b \in BOOLEAN : Dijkstra(s, b)
    \/ \E s \in Ids, budget \in Budgets, b \in BOOLEAN : GreedyMaxVisits(s, budget, b)
    \/ \E s \in Ids, b \in BOOLEAN : GreedyMaxVisitsEnhanced(s, b)
    \/ \E s \in Ids, b \in BOOLEAN : GreedyMaxVisitsPure(s, b)
    \/ \E s \in Ids, b \in BOOLEAN, k \in Deadlines : MaxStarsBeforeDeath(s, b, k)
    \/ \E s \in Ids, b \in BOOLEAN, k \in Deadlines : OptimalMaxVisitsLife(s, b, k)
    \/ \E s \in Ids, b \in BOOLEAN, k \in Deadlines, w \in BeamWidths :
          OptimalMaxVisitsLifeBeam(s, b, k, w)

PlanSpec == PlanInit /\ [][PlanNext]_vars

-----------------------------------------------------------------------------
(* Vocabulary of the properties *)

Running == ~state.finished /\ ~state.dead
HasNext == index < Len(route) - 1
Last(seq) == seq[Len(seq)]
IsPrefix(a, b) == Len(a) <= Len(b) /\ SubSeq(b, 1, Len(a)) = a
AppendsOne(old, new) == Len(new) = Len(old) + 1 /\ IsPrefix(old, new)

\* the stars joined to src by a path of links that are not blocked, src included
RECURSIVE Closure(_, _)
Closure(adj, S) ==
    LET T == S \cup {e[2] : e \in {e \in DOMAIN adj : e[1] \in S /\ ~adj[e].blocked}}
    IN IF T = S THEN S ELSE Closure(adj, T)

UnblockedReach(adj, src) == Closure(adj, {src})

\* C1: a step() in a Running state whose next planned location cannot be
\* reached from the current location over unblocked links sets finished,
\* appends exactly one blocked_route event, does not set dead, and leaves
\* current_star, the route index, energy_pct, pasto_kg, life_remaining and
\* tick as they were.
C1_BlockedRouteAborts ==
    [][(/\ called' = "step"
        /\ Running /\ HasNext
        /\ At(route, index) \in StarIds
        /\ At(route, index + 1) \notin UnblockedReach(adjacency, At(route, index)))
       => (/\ state'.finished
           /\ ~state'.dead
           /\ AppendsOne(log, log')
           /\ Last(log').event = "blocked_route"
           /\ state'.current_star = state.current_star
           /\ index' = index
           /\ route' = route
           /\ state'.energy_pct = state.energy_pct
           /\ state'.pasto_kg = state.pasto_kg
           /\ state'.life_remaining = state.life_remaining
           /\ state'.tick = state.tick)]_vars

\* a step() has just aborted on the edge 1-2 that an external toggle blocked
C1_Witness ==
    /\ called = "step"
    /\ adjacency[<<1, 2>>].blocked
    /\ log # <<>> /\ Last(log).event = "blocked_route"
    /\ state.finished /\ ~state.dead
    /\ state.current_star \in {1, 2}

\* C2: once finished or dead is set, no later call changes any field of the
\* SimulationState (the visit log included) or the event log; in particular
\* finished and dead stay set.
C2_TerminalIsFrozen ==
    [][(state.finished \/ state.dead) => (state' = state /\ log' = log)]_vars

\* teleport_and_visit was called on a finished simulation: a teleport in a
\* Running state leaves a teleport event last and never sets finished
C2_Witness ==
    /\ called = "teleport_and_visit"
    /\ state.finished
    /\ log # <<>> /\ Last(log).event \in {"finish", "blocked_route", "death"}

InRange(e) == 0 <= e /\ e <= Hundred

\* C3: in every reachable state, and in every entry of the event log and of
\* the visit log, 0 <= energy_pct <= 100, pasto_kg >= 0 and
\* life_remaining >= 0.
C3_QuantitiesInBounds ==
    /\ InRange(state.energy_pct)
    /\ state.pasto_kg >= 0
    /\ state.life_remaining >= 0
    /\ \A i \in 1..Len(log) :
          /\ InRange(log[i].energy_pct)
          /\ log[i].pasto_kg >= 0
          /\ log[i].life_remaining >= 0
    /\ \A i \in 1..Len(state.stars_log) :
          LET v == state.stars_log[i]
          IN /\ InRange(v.energy_before) /\ InRange(v.energy_after)
             /\ v.pasto_before >= 0 /\ v.pasto_after >= 0
             /\ v.life_before >= 0 /\ v.life_after >= 0

\* a movement that costs more energy than was left has been logged, and a
\* visit is on record
C3_Witness ==
    /\ log # <<>> /\ Last(log).event = "death"
    /\ state.energy_pct = 0
    /\ state.life_remaining > 0
    /\ state.stars_log # <<>>

\* C4: after any step() or teleport_and_visit() call returns, energy_pct <= 0
\* or life_remaining <= 0 implies that dead is set and that the event log
\* ends with a death event.
C4_ExhaustionIsDeath ==
    (/\ called \in {"step", "teleport_and_visit"}
     /\ ~raised
     /\ (state.energy_pct <= 0 \/ state.life_remaining <= 0))
    => (state.dead /\ log # <<>> /\ Last(log).event = "death")

\* C5: the visit effects of a location are applied at most once: the visit
\* log never holds two entries for the same location.
C5_VisitedAtMostOnce ==
    \A i, j \in 1..Len(state.stars_log) :
        i # j => state.stars_log[i].star # state.stars_log[j].star

\* C6: once the Agent's health label is 'Muerto', no later call changes it.
C6_DeadLabelIsTerminal ==
    [][donkey.salud = "Muerto" => donkey'.salud = "Muerto"]_vars

\* the label the thresholds give an energy percentage
ThresholdLabel(e) ==
    CASE e <= 0 -> "Muerto"
      [] 0 < e /\ e <= Fx(25) -> "Moribundo"
      [] Fx(25) < e /\ e <= Fx(50) -> "Mala"
      [] Fx(50) < e /\ e <= Fx(75) -> "Buena"
      [] Fx(75) < e -> "Excelente"

\* C7: after every step() or teleport_and_visit() that changed energy_pct,
\* an Agent not labelled 'Muerto' carries the threshold label of the
\* Simulator's current energy_pct.
C7_HealthTracksEnergy ==
    [][(/\ called' \in {"step", "teleport_and_visit"}
        /\ state'.energy_pct # state.energy_pct
        /\ donkey'.salud # "Muerto")
       => donkey'.salud = ThresholdLabel(state'.energy_pct)]_vars

RouteIsKnown == \A i \in 1..Len(route) : route[i] \in StarIds

\* C9: on a route of known locations every step() in a Running state either
\* sets finished or advances the route index by exactly one, the index never
\* passes the last position, and run_all() ends with finished set after at
\* most as many step() calls as the route has positions left.
C9_RunAllTerminates ==
    [][/\ (called' = "step" /\ Running /\ RouteIsKnown)
          => (state'.finished \/ index' = index + 1)
       /\ (called' = "run_all" /\ RouteIsKnown)
          => (/\ state'.finished
              /\ run_all(Sim, adjacency).calls <= Len(route) - index
              /\ run_all(Sim, adjacency).calls <= Len(route))
       /\ index' <= Len(route') - 1]_vars

\* run_all has driven a two-stop route of known locations from its start to
\* the final visit
C9_Witness ==
    /\ called = "run_all"
    /\ RouteIsKnown /\ Len(route) >= 2
    /\ index = Len(route) - 1
    /\ state.finished /\ ~state.dead
    /\ Last(log).event = "finish"
    /\ Len(log) = Len(route)


\* C11: after construction with a non-empty sequence, no sequence of step(),
\* teleport_and_visit(d) and toggle_edge_block calls makes step() end with
\* an exception.
C11_StepNeverRaises == called = "step" => ~raised

\* the energy a step() leaves once the movement is charged and before the
\* arrival's visit acts
EnergyAfterMove ==
    IF Len(state'.stars_log) > Len(state.stars_log)
    THEN Last(state'.stars_log).energy_before
    ELSE state'.energy_pct

\* C12: when the Agent carries no movement-factor configuration, a step()
\* that moves distance d lowers energy by d times the default factor of the
\* Agent's current health (0.6, 0.75, 0.8, 1.0, 1.3), not going below zero.
C12_DefaultMovementFactors ==
    [][(/\ called' = "step"
        /\ index' = index + 1
        /\ "movementCostFactorByHealth" \notin DOMAIN donkey.sim_config
        /\ donkey.salud \in DOMAIN DefaultMovementFactors)
       => EnergyAfterMove =
            Max(0, state.energy_pct
                     - Mul(dijkstra(adjacency, At(route, index), FALSE).dist[At(route, index + 1)],
                           DefaultMovementFactors[donkey.salud]))]_vars

\* the recharge fraction and the resource multiplier the Agent is configured
\* with, as the claims read them
RechargeFraction == Get(donkey.sim_config, "hypergiantRechargePct", Half)
ResourceMultiplier == Get(donkey.sim_config, "hypergiantPastoMultiplier", Fx(2))

\* the records of visits to super-nodes
SuperVisits == {i \in 1..Len(state.stars_log) : state.stars_log[i].hypergiant}

\* C13 as stated: a visit to a super-node leaves energy at min(100, e x (1 +
\* recharge fraction)) and the resource multiplied by the configured
\* multiplier, e and the resource being the values the visit started with
\* (energy 40 under default configuration gives 60 and a doubled resource).
C13_RechargeOfArrivalValues ==
    \A i \in SuperVisits :
       LET v == state.stars_log[i]
       IN /\ v.energy_after = Min(Hundred, Mul(v.energy_before, Scale + RechargeFraction))
          /\ v.pasto_after = Mul(v.pasto_before, ResourceMultiplier)

\* C13 amended: the recharge acts on what the visit's eating and research
\* leave: energy becomes min(100, e x (1 + max(0, recharge fraction))) with
\* e = clamp(energy on arrival - research cost + eating gain, 0, 100), and
\* the resource becomes (resource on arrival - eaten) x max(1, multiplier).
C13_RechargeAfterEating ==
    \A i \in SuperVisits :
       LET v == state.stars_log[i]
           e == Max(0, Min(Hundred, v.energy_before - v.invest_cost + v.energy_gain))
       IN /\ v.energy_after = Min(Hundred, Mul(e, Scale + Max(0, RechargeFraction)))
          /\ v.pasto_after = Mul(Max(0, v.pasto_before - v.kg_eaten),
                                 Max(Scale, ResourceMultiplier))

\* a super-node was visited with energy 40 under default configuration and
\* the Agent ate there before the recharge
C13_Witness ==
    \E i \in SuperVisits :
       /\ state.stars_log[i].energy_before = Fx(40)
       /\ state.stars_log[i].kg_eaten > 0
       /\ state.stars_log[i].energy_after > Fx(60)
       /\ "hypergiantRechargePct" \notin DOMAIN donkey.sim_config

\* the edges a search may walk
Usable(adj, include_blocked) ==
    {e \in DOMAIN adj : include_blocked \/ ~adj[e].blocked}

SetMin(S) == CHOOSE x \in S : \A y \in S : x <= y

\* the least total weight of the walks of at most n usable edges from s, for
\* every star such a walk ends in
RECURSIVE WalkDist(_, _, _, _)
WalkDist(adj, usable, s, n) ==
    IF n = 0 THEN [v \in {s} |-> 0]
    ELSE LET prev == WalkDist(adj, usable, s, n - 1)
             into(v) == {e \in usable : e[2] = v /\ e[1] \in DOMAIN prev}
             reach == DOMAIN prev \cup {e[2] : e \in {e \in usable : e[1] \in DOMAIN prev}}
         IN [v \in reach |->
               SetMin((IF v \in DOMAIN prev THEN {prev[v]} ELSE {})
                      \cup {prev[e[1]] + adj[e].distance : e \in into(v)})]

\* a shortest path has fewer edges than there are stars
ShortestDist(adj, s, include_blocked) ==
    WalkDist(adj, Usable(adj, include_blocked), s, Cardinality(StarIds))

\* C14: after any sequence of add_edge, ensure_bidirectional and
\* toggle_edge_block calls, dijkstra from a known s gives dist[s] = 0 and for
\* every star v the least total weight of the paths from s to v over edges
\* not blocked at the time of the call (over all edges when include_blocked
\* is set); v is absent from the result exactly when there is no such path,
\* and reconstruct_path is then empty for v.
C14_DijkstraIsShortest ==
    \A s \in StarIds, include_blocked \in BOOLEAN :
       LET r == dijkstra(adjacency, s, include_blocked)
       IN /\ r.dist[s] = 0
          /\ r.dist = ShortestDist(adjacency, s, include_blocked)
          /\ \A v \in StarIds \ DOMAIN r.dist : reconstruct_path(r.parent, v) = <<>>

\* after a toggle the direct edge 1-3 is blocked, the search from 1 reaches 3
\* over the detour through 2 and walks the direct edge only when told to
\* include blocked edges, and 1 cannot be reached from 3
C14_Witness ==
    /\ called = "toggle_edge_block"
    /\ <<1, 3>> \in DOMAIN adjacency /\ adjacency[<<1, 3>>].blocked
    /\ LET r == dijkstra(adjacency, 1, FALSE)
       IN /\ 3 \in DOMAIN r.dist /\ r.dist[3] = Fx(20)
          /\ reconstruct_path(r.parent, 3) = <<1, 2, 3>>
    /\ dijkstra(adjacency, 1, TRUE).dist[3] = Fx(10)
    /\ LET r == dijkstra(adjacency, 3, FALSE)
       IN 1 \notin DOMAIN r.dist /\ reconstruct_path(r.parent, 1) = <<>>

\* the adjacency with the directed edge e blocked, with e removed, and after
\* toggle_edge_block(e[1], e[2], True)
BlockedOne(adj, e) == [adj EXCEPT ![e].blocked = TRUE]
RemovedOne(adj, e) == [x \in DOMAIN adj \ {e} |-> adj[x]]
BlockedBoth(e) == toggle_edge_block(TheGraph, e[1], e[2], "True").graph.adjacency

\* every star the search reaches in after was reached in before, at no
\* greater distance
NoShorter(before, after) ==
    \A v \in DOMAIN after : v \in DOMAIN before /\ before[v] <= after[v]

\* C15: on the graphs add_edge builds with non-negative weights, dijkstra
\* reports no negative distance, and blocking one edge (one direction or, as
\* toggle_edge_block does, both) or removing it never lowers the distance
\* reported from s to a star that is still reachable afterwards.
C15_BlockingNeverShortens ==
    \A s \in StarIds :
       LET before == dijkstra(adjacency, s, FALSE).dist
       IN /\ \A v \in DOMAIN before : before[v] >= 0
          /\ \A e \in DOMAIN adjacency :
                /\ NoShorter(before, dijkstra(BlockedOne(adjacency, e), s, FALSE).dist)
                /\ NoShorter(before, dijkstra(RemovedOne(adjacency, e), s, FALSE).dist)
                /\ NoShorter(before, dijkstra(BlockedBoth(e), s, FALSE).dist)

\* blocking the edge 1-2 lengthens the way from 1 to 3, which stays
\* reachable over the direct edge
C15_Witness ==
    /\ <<1, 2>> \in DOMAIN adjacency /\ ~adjacency[<<1, 2>>].blocked
    /\ LET before == dijkstra(adjacency, 1, FALSE).dist
           after == dijkstra(BlockedOne(adjacency, <<1, 2>>), 1, FALSE).dist
       IN /\ 3 \in DOMAIN before /\ before[3] = Fx(20)
          /\ 3 \in DOMAIN after /\ after[3] = Fx(30)
          /\ 2 \notin DOMAIN after

\* the link list of every star holds exactly the edges stored for the star,
\* with their weights and flags
LinksMatch(g) ==
    \A u \in StarIds :
       {<<u, l.to>> : l \in {g.links[u][i] : i \in 1..Len(g.links[u])}}
           = {e \in DOMAIN g.adjacency : e[1] = u}
       /\ \A i \in 1..Len(g.links[u]) :
             LET l == g.links[u][i]
             IN <<u, l.to>> \in DOMAIN g.adjacency
                => g.adjacency[<<u, l.to>>] = Edge(l.distance, l.blocked)

\* every link A->B has a mirror B->A of equal weight and equal flag
Mirrored(adj) ==
    \A e \in DOMAIN adj :
       /\ <<e[2], e[1]>> \in DOMAIN adj
       /\ adj[<<e[2], e[1]>>] = adj[e]

\* C17: ensure_bidirectional() (reverse links not blocked by default) leaves
\* a graph in which every link A->B has a mirror link B->A with equal weight
\* and equal blocked flag, in adjacency and in the stars' link lists alike,
\* and toggle_edge_block keeps it so.
C17_MirrorLinks ==
    [][/\ EnsureBidirectional(FALSE)
            => Mirrored(adjacency') /\ LinksMatch(TheGraph')
       /\ (called' = "toggle_edge_block" /\ Mirrored(adjacency))
            => Mirrored(adjacency') /\ LinksMatch(TheGraph')]_vars

\* the blocked flag the claim expects after toggle_edge_block(u, v, b)
ExpectedFlag(u, v, b) ==
    IF b = "None" THEN ~adjacency[<<u, v>>].blocked ELSE b = "True"

\* nothing but the blocked flags of u->v and v->u differs between the graph
\* before and after
OnlyFlagsOf(u, v) ==
    /\ DOMAIN adjacency' = DOMAIN adjacency
    /\ order' = order
    /\ \A e \in DOMAIN adjacency :
          /\ adjacency'[e].distance = adjacency[e].distance
          /\ e \notin {<<u, v>>, <<v, u>>} => adjacency'[e] = adjacency[e]
    /\ \A s \in StarIds :
          /\ Len(links'[s]) = Len(links[s])
          /\ \A i \in 1..Len(links[s]) :
                /\ links'[s][i].to = links[s][i].to
                /\ links'[s][i].distance = links[s][i].distance
                /\ <<s, links[s][i].to>> \notin {<<u, v>>, <<v, u>>}
                      => links'[s][i] = links[s][i]

\* C16: after toggle_edge_block(u, v, b) between two different stars whose
\* edge is stored in both directions, u->v and v->u carry the same blocked
\* flag (b when b is given, the flipped flag of u->v when b is omitted), in
\* adjacency and in the link lists; a toggle of a stored edge changes no other
\* link and no weight; when the edge is stored in neither direction the call
\* returns false and leaves the graph unchanged.
C16_ToggleBothDirections ==
    [][\A e \in GraphTogglePairs, b \in {"None", "True", "False"} :
          ToggleEdgeBlock(e[1], e[2], b) =>
             LET u == e[1]
                 v == e[2]
             IN /\ (u # v /\ <<u, v>> \in DOMAIN adjacency /\ <<v, u>> \in DOMAIN adjacency)
                     => /\ adjacency'[<<u, v>>].blocked = ExpectedFlag(u, v, b)
                        /\ adjacency'[<<v, u>>].blocked = ExpectedFlag(u, v, b)
                        /\ LinksMatch(TheGraph) => LinksMatch(TheGraph')
                /\ (<<u, v>> \in DOMAIN adjacency \/ <<v, u>> \in DOMAIN adjacency)
                     => OnlyFlagsOf(u, v)
                /\ (<<u, v>> \notin DOMAIN adjacency /\ <<v, u>> \notin DOMAIN adjacency)
                     => /\ ~toggle_edge_block(TheGraph, u, v, b).changed
                        /\ UNCHANGED <<adjacency, order, links>>]_vars

\* the links of star u that lead to v
LinksTo(ls, v) == {i \in 1..Len(ls) : ls[i].to = v}

\* C18: every add_edge(u, v, d, b) between known stars leaves the stored
\* link u->v with the smaller of d and the weight stored before, blocked iff
\* b is true or the link was blocked before (d and b themselves for a new
\* pair), so that a sequence of add_edge calls for one pair stores the
\* minimum of the weights given and the disjunction of the flags; the link
\* list of u holds one link to v with the same weight and flag, and the
\* links of other pairs are unchanged.
C18_AddEdgeMerges ==
    [][\A c \in EdgeCalls :
          (AddEdge(c[1], c[2], c[3], c[4]) /\ ~AddEdgeRaises(c[1], c[2])) =>
             LET u == c[1]
                 v == c[2]
                 stored == adjacency'[<<u, v>>]
             IN /\ <<u, v>> \in DOMAIN adjacency'
                /\ stored = IF <<u, v>> \in DOMAIN adjacency
                            THEN Edge(Min(adjacency[<<u, v>>].distance, c[3]),
                                      adjacency[<<u, v>>].blocked \/ c[4])
                            ELSE Edge(c[3], c[4])
                /\ \E i \in 1..Len(links'[u]) :
                      /\ LinksTo(links'[u], v) = {i}
                      /\ links'[u][i] = Link(v, stored.distance, stored.blocked)
                /\ DOMAIN adjacency' = DOMAIN adjacency \cup {<<u, v>>}
                /\ \A e \in DOMAIN adjacency \ {<<u, v>>} : adjacency'[e] = adjacency[e]
                /\ \A s \in StarIds \ {u} : links'[s] = links[s]
                /\ \A i \in 1..Len(links[u]) :
                      links[u][i].to # v => links'[u][i] = links[u][i]]_vars

\* the pair (1, 3), given once with weight 30 and blocked and once with
\* weight 10 and not blocked, is stored with weight 10 and blocked
C18_Witness ==
    /\ called = "add_edge" /\ ~raised
    /\ order = <<<<1, 3>>>>
    /\ adjacency[<<1, 3>>] = Edge(Fx(10), TRUE)
    /\ links[1] = <<Link(3, Fx(10), TRUE)>>

\* the ends of every stored edge and of every link are stars of the graph
EndpointsKnown(g) ==
    /\ \A e \in DOMAIN g.adjacency : e[1] \in StarIds /\ e[2] \in StarIds
    /\ \A i \in 1..Len(g.order) : g.order[i][1] \in StarIds /\ g.order[i][2] \in StarIds
    /\ \A s \in StarIds : \A i \in 1..Len(g.links[s]) : g.links[s][i].to \in StarIds

\* C19: add_edge(u, v, ...) with u or v not a star of the graph ends with an
\* exception and leaves adjacency and every star's link list as they were;
\* the ends of every stored link are stars of the graph in every state.
C19_AddEdgeRejectsUnknown ==
    [][/\ \A c \in EdgeCalls :
             (AddEdge(c[1], c[2], c[3], c[4])
                /\ (c[1] \notin StarIds \/ c[2] \notin StarIds))
             => raised' /\ UNCHANGED <<adjacency, order, links>>
       /\ EndpointsKnown(TheGraph')]_vars

\* an add_edge call with an unknown end has failed on a graph that holds
\* edges, and these are still there
C19_Witness ==
    /\ called = "add_edge" /\ raised
    /\ Len(order) >= 2
    /\ EndpointsKnown(TheGraph)

\* C20: a second ensure_bidirectional call changes nothing: adjacency (the
\* same links, weights and blocked flags) and every star's link list are as
\* the first call left them; and a call changes no link that was stored
\* before it, it only adds links.
C20_EnsureIdempotent ==
    [][\A first \in BOOLEAN :
          EnsureBidirectional(first) =>
             /\ \A second \in BOOLEAN :
                   ensure_bidirectional(TheGraph', second) = TheGraph'
             /\ \A e \in DOMAIN adjacency :
                   e \in DOMAIN adjacency' /\ adjacency'[e] = adjacency[e]
             /\ \A s \in StarIds : IsPrefix(links[s], links'[s])]_vars

\* ensure_bidirectional has added the reverse 3->1 of the edge 1->3 and has
\* left the pair 1-2, stored from both ends with different weights, as it was
C20_Witness ==
    /\ called = "ensure_bidirectional"
    /\ {<<1, 3>>, <<3, 1>>, <<1, 2>>, <<2, 1>>} \subseteq DOMAIN adjacency
    /\ adjacency[<<3, 1>>] = adjacency[<<1, 3>>]
    /\ adjacency[<<1, 2>>].distance = Fx(10)
    /\ adjacency[<<2, 1>>].distance = Fx(30)
    /\ ensure_bidirectional(TheGraph, FALSE) = TheGraph

\* the constellations whose list of stars holds sid
MemberOf(consts, sid) ==
    {n \in DOMAIN consts : \E i \in 1..Len(consts[n]) : consts[n][i] = sid}

\* C21: after recompute_shared_flags(), whatever the flags held before, every
\* star's shared flag is true iff the star is listed by more than one
\* constellation, and its constellation list names exactly the
\* constellations that list it, each once; a second call right after changes
\* nothing and returns 0.
C21_SharedIsRecomputed ==
    [][RecomputeSharedFlags =>
         /\ constellations' = constellations
         /\ \A sid \in StarIds :
               LET names == star_constellations'[sid]
                   member == MemberOf(constellations', sid)
               IN /\ shared'[sid] <=> Cardinality(member) > 1
                  /\ {names[i] : i \in 1..Len(names)} = member
                  /\ Len(names) = Cardinality(member)
         /\ recompute_shared_flags(TheCatalog').changed = 0
         /\ recompute_shared_flags(TheCatalog').catalog = TheCatalog']_vars

\* the flags have been recomputed for a star listed by both constellations,
\* a star listed by one and a star listed by none
C21_Witness ==
    /\ called = "recompute_shared_flags"
    /\ MemberOf(constellations, 1) = {"Alfa", "Beta"}
    /\ MemberOf(constellations, 2) = {"Beta"}
    /\ MemberOf(constellations, 3) = {}
    /\ shared = [sid \in StarIds |-> sid = 1]
    /\ star_constellations[1] = <<"Alfa", "Beta">>
    /\ constellations["Beta"] = <<1, 2>>

-----------------------------------------------------------------------------
(* Planner claims *)

LifePlanners ==
    {"max_stars_before_death", "optimal_max_visits_life", "optimal_max_visits_life_beam"}

GreedyPlanners ==
    {"greedy_max_visits", "greedy_max_visits_enhanced", "greedy_max_visits_pure"}

\* the last call was one of these planners and it returned
Returned(planners) == plan.planner \in planners /\ ~raised

NoDuplicates(seq) == \A i, j \in 1..Len(seq) : i # j => seq[i] # seq[j]

\* the time ceiling stopped the search
CeilingHit == plan.deadline # NoDeadline /\ plan.checks = 0

\* C22: the route returned by Mode 1, Mode 2 and the beam variant starts at
\* the source and holds no star twice, the waypoints of every leg included,
\* whether or not the time ceiling is hit
C22_LifeRoutesSimple ==
    Returned(LifePlanners) =>
        /\ plan.route # <<>>
        /\ plan.route[1] = plan.source
        /\ NoDuplicates(plan.route)

\* a search cut by the time ceiling after it found a route over all three stars
C22_Witness ==
    /\ Returned(LifePlanners)
    /\ CeilingHit
    /\ plan.deadline > 0
    /\ Len(plan.route) = 3

\* C23: the route returned by greedy_max_visits, greedy_max_visits_enhanced
\* and greedy_max_visits_pure holds no star id twice, on star-shaped graphs
\* where a leg passes back through an earlier star as on any other
C23_GreedyRoutesSimple ==
    Returned(GreedyPlanners) => NoDuplicates(plan.route)

RECURSIVE SeqSum(_)
SeqSum(seq) == IF seq = <<>> THEN 0 ELSE Head(seq) + SeqSum(Tail(seq))

\* the shortest distance of each consecutive pair of a route
LegDistances(rt, include_blocked) ==
    [i \in 1..(Len(rt) - 1) |->
       ShortestDist(adjacency, rt[i], include_blocked)[rt[i + 1]]]

RouteDistance(rt, include_blocked) == SeqSum(LegDistances(rt, include_blocked))

\* the energy greedy_max_visits_pure charges for each consecutive pair:
\* the distance times the movement factor of the Donkey's health, and the
\* static cost of visiting the star the pair ends in
LegEnergies(rt, include_blocked) ==
    [i \in 1..(Len(rt) - 1) |->
       Mul(movement_energy_factor(donkey), LegDistances(rt, include_blocked)[i])
       + estimate_static_visit_cost(stars[rt[i + 1]])]

\* the static visit costs of the stars a route reaches after its first
VisitCosts(rt) ==
    LET reached == SeqToSet(Tail(rt))
        ordered == SelectSeq(StarOrder, LAMBDA v : v \in reached)
    IN SeqSum([i \in 1..Len(ordered) |-> estimate_static_visit_cost(stars[ordered[i]])])

DijkstraLegs(rt, include_blocked) ==
    [i \in 1..(Len(rt) - 1) |->
       dijkstra(adjacency, rt[i], include_blocked).dist[rt[i + 1]]]

C26_DepthBoundedByStars ==
    (Returned(LifePlanners) /\ plan.deadline = NoDeadline) =>
        /\ plan.levels <= Len(plan.route)
        /\ plan.levels <= Cardinality(StarIds)

\* a search without time ceiling that went as deep as there are stars
C26_Witness ==
    /\ Returned(LifePlanners)
    /\ plan.deadline = NoDeadline
    /\ plan.levels = Cardinality(StarIds)

\* two linked stars: a single unblocked edge of weight 10, stored both ways
\* (the third star of the catalogue has no link)
TwoStarGraph ==
    /\ DOMAIN adjacency = {<<1, 2>>, <<2, 1>>}
    /\ \A e \in DOMAIN adjacency :
          adjacency[e].distance = Fx(10) /\ ~adjacency[e].blocked

LifeBudget == Max(0, donkey.vida_maxima - donkey.edad)

\* Mode 1 ran to its end from one of the two linked stars
ModeOneOnTwoStars ==
    /\ Returned({"max_stars_before_death"})
    /\ plan.deadline = NoDeadline
    /\ TwoStarGraph
    /\ plan.source \in {1, 2}

\* C27: on the graph of two stars and one unblocked edge of weight 10,
\* max_stars_before_death returns ([source], 0) for a Donkey with life
\* budget 5 and ([source, dest], 10) for life budget 20; on every graph the
\* legs it takes fit together in the life budget
C27_ModeOneScenarios ==
    /\ ModeOneOnTwoStars =>
          /\ LifeBudget = Fx(5) => plan.route = <<plan.source>> /\ plan.cost = 0
          /\ LifeBudget = Fx(20) =>
                /\ plan.route = <<plan.source, 3 - plan.source>>
                /\ plan.cost = Fx(10)
    /\ Returned({"max_stars_before_death"}) => plan.cost <= LifeBudget

\* scenario B: life budget 20, the edge is walked
C27_Witness ==
    /\ ModeOneOnTwoStars
    /\ LifeBudget = Fx(20)
    /\ plan.route = <<1, 2>>

\* scenario A: life budget 5, the Donkey stays
ScenarioAStays ==
    /\ ModeOneOnTwoStars
    /\ LifeBudget = Fx(5)
    /\ plan.route = <<1>>

\* C28: dijkstra and every planner, called with a source that is not a star
\* of the graph, raise ValueError and return nothing; the graph (adjacency,
\* links, blocked flags, stars) and the Donkey are as before the call
C28_UnknownSourceRaises ==
    [][(plan'.planner # "none" /\ plan'.source \notin StarIds) =>
          /\ raised'
          /\ DOMAIN plan' = {"planner", "source", "include_blocked"}
          /\ TheGraph' = TheGraph
          /\ TheCatalog' = TheCatalog
          /\ donkey' = donkey]_vars

\* Mode 1 called from an unknown star
C28_Witness ==
    /\ raised
    /\ plan.planner = "max_stars_before_death"
    /\ plan.source = UnknownId

\* the energy the Donkey has and can eat, before a call
EnergyBudget == donkey.energia_pct + Mul(donkey.pasto_kg, energy_gain_per_kg(donkey))

\* the call returns the source alone at no cost
StaysAtSource == plan'.route = <<plan'.source>> /\ plan'.cost = 0

\* a call of the planner from a star of the graph
Calls(planner) ==
    plan'.planner = planner /\ called' = planner /\ plan'.source \in StarIds

\* C29: a planner called from a star of the graph with a budget that is not
\* positive returns exactly ([source], 0): life left <= 0 for Mode 1, Mode 2
\* and the beam variant, min(energy budget, life left) <= 0 for
\* greedy_max_visits_enhanced, energy budget <= 0 or life budget <= 0 for
\* greedy_max_visits_pure, budget <= 0 for greedy_max_visits
C29_NoBudgetStays ==
    [][/\ \A planner \in LifePlanners :
             (Calls(planner) /\ LifeBudget <= 0) => ~raised' /\ StaysAtSource
       /\ (Calls("greedy_max_visits_enhanced") /\ Min(EnergyBudget, LifeBudget) <= 0)
             => ~raised' /\ StaysAtSource
       /\ (Calls("greedy_max_visits_pure") /\ (EnergyBudget <= 0 \/ LifeBudget <= 0))
             => ~raised' /\ StaysAtSource
       /\ (Calls("greedy_max_visits") /\ plan'.budget <= 0)
             => ~raised' /\ StaysAtSource
      ]_vars

\* greedy_max_visits_enhanced called for a Donkey with energy but no life
\* left, on a graph where the source has a neighbour
C29_Witness ==
    /\ plan.planner = "greedy_max_visits_enhanced"
    /\ ~raised
    /\ EnergyBudget > 0
    /\ LifeBudget <= 0
    /\ plan.route = <<plan.source>>
    /\ \E e \in DOMAIN adjacency : e[1] = plan.source /\ ~adjacency[e].blocked

\* the fields greedy_max_visits_enhanced may write
PlanningFields == {"energia_pct", "pasto_kg"}

\* C30: greedy_max_visits_pure, Mode 1, Mode 2 and the beam variant leave
\* the Donkey they are given (energy, grass, health, age, maximum age) and
\* the graph as they were; a planner call that changes the Donkey is a call
\* of greedy_max_visits_enhanced, and it changes energia_pct and pasto_kg
\* only; no planner changes the graph
C30_PlannersFrame ==
    [][/\ called' \in LifePlanners \cup {"greedy_max_visits_pure"} =>
             donkey' = donkey
       /\ donkey' # donkey =>
             /\ called' = "greedy_max_visits_enhanced"
             /\ \A f \in DOMAIN donkey \ PlanningFields : donkey'[f] = donkey[f]
       /\ called' \in LifePlanners \cup GreedyPlanners =>
             TheGraph' = TheGraph /\ TheCatalog' = TheCatalog
      ]_vars

\* greedy_max_visits_enhanced passed a hypergiant: the Donkey has more
\* energy and twice the grass it was given
C30_Witness ==
    /\ called = "greedy_max_visits_enhanced"
    /\ ~raised
    /\ Len(plan.route) > 1
    /\ \E d \in PlanDonkeys :
          /\ donkey.energia_pct > d.energia_pct
          /\ donkey.pasto_kg = 2 * d.pasto_kg
          /\ donkey.pasto_kg > 0
          /\ \A f \in DOMAIN donkey \ PlanningFields : donkey[f] = d[f]

-----------------------------------------------------------------------------
(* Simulation claims: legs, visits and the event log *)

\* the life a step() leaves once the movement is charged and before the
\* arrival's visit acts
LifeAfterMove ==
    IF Len(state'.stars_log) > Len(state.stars_log)
    THEN Last(state'.stars_log).life_before
    ELSE state'.life_remaining

\* the movement factor the Simulator applies to the Donkey's health
FactorInForce ==
    Get(Get(donkey.sim_config, "movementCostFactorByHealth", NoConfig),
        donkey.salud, Scale)

\* the shortest distances over unblocked links from the star the Donkey is at
DistancesNow == ShortestDist(adjacency, At(route, index), FALSE)

\* C31: a step() in a Running state with a next planned star arrives there
\* whenever a path of links unblocked at the time of the step joins the
\* current star to it, whatever was blocked since the route was planned, and
\* charges life and energy for the shortest such distance; it ends with
\* blocked_route only when there is no such path
C31_StepTakesDetour ==
    [][(/\ called' = "step"
        /\ Running /\ HasNext
        /\ At(route, index) \in StarIds)
       => /\ AppendsOne(log, log')
          /\ IF At(route, index + 1) \in DOMAIN DistancesNow
             THEN /\ Last(log').event \in {"visit", "death"}
                  /\ index' = index + 1
                  /\ state'.current_star = At(route, index + 1)
                  /\ LifeAfterMove =
                        Max(0, state.life_remaining - DistancesNow[At(route, index + 1)])
                  /\ EnergyAfterMove =
                        Max(0, state.energy_pct
                                 - Mul(DistancesNow[At(route, index + 1)], FactorInForce))
             ELSE Last(log').event = "blocked_route"]_vars

\* the link 1-2 of the planned leg was blocked and the link 1-3 opened: the
\* step went round through star 3 and logged the distance 40 + 20
C31_Witness ==
    /\ called = "step"
    /\ adjacency[<<1, 2>>].blocked /\ adjacency[<<2, 1>>].blocked
    /\ log # <<>>
    /\ Last(log).event = "visit"
    /\ Last(log).star \in {1, 2}
    /\ Last(log).distance = Fx(60)

-----------------------------------------------------------------------------
(* Planner claims: budgets, optimality and equivalences *)

Prefix(seq, n) == SubSeq(seq, 1, n)

\* C32: in the route greedy_max_visits_pure returns, after every selection
\* and at return, the energy used (movement factor times leg distance plus
\* static visit cost, summed over the legs) is at most the energy budget and
\* the distance walked at most the life budget: a destination that would
\* exceed either is never appended
C32_PureWithinBothBudgets ==
    Returned({"greedy_max_visits_pure"}) =>
        /\ \A n \in 1..Len(plan.route) :
              /\ SeqSum(LegEnergies(Prefix(plan.route, n), plan.include_blocked))
                    <= Max(0, EnergyBudget)
              /\ RouteDistance(Prefix(plan.route, n), plan.include_blocked)
                    <= LifeBudget
        /\ plan.cost = SeqSum(LegEnergies(plan.route, plan.include_blocked))

\* greedy_max_visits_pure stopped after one leg although another star was
\* in reach: the life budget did not cover it
C32_Witness ==
    /\ Returned({"greedy_max_visits_pure"})
    /\ Len(plan.route) = 2
    /\ \E v \in StarIds \ SeqToSet(plan.route) :
          /\ v \in DOMAIN ShortestDist(adjacency, Last(plan.route), plan.include_blocked)
          /\ RouteDistance(Append(plan.route, v), plan.include_blocked) > LifeBudget
          /\ SeqSum(LegEnergies(Append(plan.route, v), plan.include_blocked))
                <= Max(0, EnergyBudget)

\* what the two searches return when they run to their end from source
ModeOne(source, include_blocked) ==
    max_stars_before_death(adjacency, source, donkey, include_blocked, NoDeadline)

ModeTwo(source, include_blocked) ==
    optimal_max_visits_life(adjacency, source, donkey, include_blocked, NoDeadline)

\* C33: with the time ceiling never reached, max_stars_before_death and
\* optimal_max_visits_life return the same route and the same cost for every
\* graph, source and Donkey
C33_ModesAgree ==
    \A source \in StarIds, include_blocked \in BOOLEAN :
        /\ ModeOne(source, include_blocked).route = ModeTwo(source, include_blocked).route
        /\ ModeOne(source, include_blocked).cost = ModeTwo(source, include_blocked).cost

\* optimal_max_visits_life has just returned a route over the three stars,
\* the one max_stars_before_death finds
C33_Witness ==
    /\ Returned({"optimal_max_visits_life"})
    /\ plan.deadline = NoDeadline
    /\ Len(plan.route) = 3
    /\ ModeOne(plan.source, plan.include_blocked).route = plan.route

\* the stars a route may continue to from its last star: unvisited, within
\* the life that is left, and reached by a shortest path that crosses no
\* star of the route
NextLegs(rt, used, r) ==
    {v \in (DOMAIN r.dist) \ SeqToSet(rt) :
        /\ used + r.dist[v] <= LifeBudget
        /\ Len(reconstruct_path(r.parent, v)) >= 2
        /\ SeqToSet(Tail(reconstruct_path(r.parent, v))) \cap SeqToSet(rt) = {}}

\* every <<route, distance>> that can be built from rt by successive legs
RECURSIVE Buildable(_, _, _)
BuildableFrom(rt, used, include_blocked, r) ==
    UNION {Buildable(rt \o Tail(reconstruct_path(r.parent, v)), used + r.dist[v],
                     include_blocked) : v \in NextLegs(rt, used, r)}

Buildable(rt, used, include_blocked) ==
    {<<rt, used>>} \cup BuildableFrom(rt, used, include_blocked,
                                      dijkstra(adjacency, Last(rt), include_blocked))

\* res is one of the routes of B, no route of B has more stars, and none
\* with as many stars is shorter
BestOf(res, B) ==
    /\ <<res.route, res.cost>> \in B
    /\ \A b \in B : \/ Len(b[1]) < Len(res.route)
                    \/ Len(b[1]) = Len(res.route) /\ res.cost <= b[2]

\* C34: run to their end, max_stars_before_death and optimal_max_visits_life
\* return a route with the most stars among all routes that can be built from
\* the source by successive shortest-path legs to unvisited stars within the
\* life budget, and among those one of the least total distance
C34_SearchIsOptimal ==
    \A source \in StarIds, include_blocked \in BOOLEAN :
        /\ BestOf(ModeOne(source, include_blocked), Buildable(<<source>>, 0, include_blocked))
        /\ BestOf(ModeTwo(source, include_blocked), Buildable(<<source>>, 0, include_blocked))

\* max_stars_before_death has just returned a route over the three stars
\* that the nearest star would not have led to: a route through the nearest
\* star can be built and ends after two stars
C34_Witness ==
    /\ Returned({"max_stars_before_death"})
    /\ plan.deadline = NoDeadline
    /\ Len(plan.route) = 3
    /\ \E b \in Buildable(<<plan.source>>, 0, plan.include_blocked) :
          /\ Len(b[1]) = 2
          /\ b[2] < ShortestDist(adjacency, plan.source, plan.include_blocked)[plan.route[2]]
          /\ NextLegs(b[1], b[2], dijkstra(adjacency, Last(b[1]), plan.include_blocked)) = {}

\* the hypergiants a route arrives at: those among its stars after the first
SuperNodesEntered(rt) == {v \in SeqToSet(Tail(rt)) : stars[v].hypergiant}

\* the Donkey after k arrivals at a hypergiant during planning
RECURSIVE RechargedTimes(_, _)
RechargedTimes(dk, k) ==
    IF k = 0 THEN dk
    ELSE RechargedTimes([dk EXCEPT !.energia_pct = Min(Hundred, Mul(@, Scale + Half)),
                                   !.pasto_kg = 2 * @], k - 1)

\* C35: greedy_max_visits_enhanced leaves the Donkey with its energy
\* multiplied by 1.5 (capped at 100) and its grass doubled once for every
\* hypergiant that entered the route, as destination or as waypoint of a leg,
\* and the cost it reports is within the budget of that Donkey
C35_RechargePerSuperNode ==
    [][Calls("greedy_max_visits_enhanced") =>
          /\ donkey' = RechargedTimes(donkey, Cardinality(SuperNodesEntered(plan'.route)))
          /\ plan'.cost <= energy_budget_from_donkey(donkey')]_vars

\* a step() has just run the visit of the star it arrived at
FirstVisit == Len(state'.stars_log) > Len(state.stars_log)

\* the life the visit of a step() may add: the life delta of the star
\* visited for the first time, when it is positive
LifeGranted ==
    IF FirstVisit THEN Max(0, stars[Last(state'.stars_log).star].life_delta) ELSE 0

SessionTime(star_id) == Max(Half, 2 * stars[star_id].time_to_eat)

EatThreshold == Get(donkey.sim_config, "eatEnergyThresholdPct", Fx(50))
MaxEatFraction == Get(donkey.sim_config, "maxEatPortionFraction", Half)

\* the grass a visit leaves before the hypergiant effect, and after it
PastoAfterEating(e) == e.pasto_before - e.kg_eaten
PastoAfterVisit(e) ==
    IF e.hypergiant THEN Mul(PastoAfterEating(e), Max(Scale, ResourceMultiplier))
    ELSE PastoAfterEating(e)

\* C37: in every visit the Donkey eats only if its energy on arrival is below
\* the eat threshold (default 50); it eats at most the grass it has and at
\* most the eating time divided by the star's time_to_eat; the eating time is
\* at most the configured fraction (default one half) of the session, eating
\* time plus research time is the session time, and pasto_kg goes down by
\* exactly the amount eaten before any hypergiant multiplier
C37_EatingIsBounded ==
    \A i \in 1..Len(state.stars_log) :
        LET e == state.stars_log[i]
        IN /\ (e.portion_eat > 0 \/ e.kg_eaten > 0) => e.energy_before < EatThreshold
           /\ e.kg_eaten >= 0
           /\ e.kg_eaten <= e.pasto_before
           /\ e.kg_eaten <= Div(e.portion_eat, stars[e.star].time_to_eat)
           /\ e.portion_eat <= Mul(SessionTime(e.star), MaxEatFraction)
           /\ e.portion_eat + e.portion_invest = SessionTime(e.star)
           /\ e.pasto_after = PastoAfterVisit(e)

\* the log holds a visit where the Donkey ate all the time allowed and not
\* all its grass, and a visit where it arrived with energy at or above the
\* threshold and did not eat although it had grass
C37_Witness ==
    /\ \E i \in 1..Len(state.stars_log) :
          /\ state.stars_log[i].kg_eaten > 0
          /\ state.stars_log[i].kg_eaten < state.stars_log[i].pasto_before
    /\ \E i \in 1..Len(state.stars_log) :
          /\ state.stars_log[i].energy_before >= EatThreshold
          /\ state.stars_log[i].pasto_before > 0
          /\ state.stars_log[i].kg_eaten = 0

\* what the beam variant returns when it runs to its end from source
Beam(source, include_blocked, beam_width) ==
    optimal_max_visits_life_beam(adjacency, source, donkey, include_blocked,
                                 NoDeadline, beam_width)

\* result b has no more stars than result m, and with as many stars no
\* lower cost
NotBetterThan(b, m) ==
    /\ Len(b.route) <= Len(m.route)
    /\ Len(b.route) = Len(m.route) => b.cost >= m.cost

\* C38: with the time ceiling never reached and beam_width >= 1, the result
\* of optimal_max_visits_life_beam never has more stars than the result of
\* optimal_max_visits_life on the same graph, source and Donkey, and with the
\* same number of stars its cost is not lower
C38_BeamNeverBeatsModeTwo ==
    \A source \in StarIds, include_blocked \in BOOLEAN, beam_width \in BeamWidths :
        NotBetterThan(Beam(source, include_blocked, beam_width),
                      ModeTwo(source, include_blocked))

\* the beam variant has just returned, with a beam of one, a route with
\* fewer stars than the one optimal_max_visits_life finds
C38_Witness ==
    /\ Returned({"optimal_max_visits_life_beam"})
    /\ plan.deadline = NoDeadline
    /\ plan.beam_width = 1
    /\ Len(plan.route) > 1
    /\ Len(plan.route) < Len(ModeTwo(plan.source, plan.include_blocked).route)

\* the run of a new Simulator built for the Donkey over the returned route
RunOfPlan == run_all(NewSimulator(donkey, plan.route), adjacency).sim

\* no link of the graph is blocked, and no star changes the life on a visit
NoBlocks == \A e \in DOMAIN adjacency : ~adjacency[e].blocked
NoLifeDeltas == \A id \in StarIds : stars[id].life_delta = 0

\* the energy of run s never reached zero: not in an event, not on the way
\* in or out of a visit, not at the end
EnergyStaysPositive(s) ==
    /\ s.state.energy_pct > 0
    /\ \A i \in 1..Len(s.log) : s.log[i].energy_pct > 0
    /\ \A i \in 1..Len(s.state.stars_log) :
          s.state.stars_log[i].energy_before > 0 /\ s.state.stars_log[i].energy_after > 0

\* run s consumed exactly cost of life and ended finished, not dead
RunsAsPlanned(s, cost) ==
    /\ LifeBudget - s.state.life_remaining = cost
    /\ s.state.finished
    /\ ~s.state.dead

\* C39: when a route that max_stars_before_death or optimal_max_visits_life
\* returned with cost c is run by the Simulator on the same graph, with no
\* link blocked, no life delta on any star and the energy never at zero, the
\* life the movement consumes over the whole run is c and the run ends
\* finished and not dead
C39_PlanRunsToItsEnd ==
    (/\ Returned({"max_stars_before_death", "optimal_max_visits_life"})
     /\ NoBlocks
     /\ NoLifeDeltas
     /\ EnergyStaysPositive(RunOfPlan))
       => RunsAsPlanned(RunOfPlan, plan.cost)

TerminalEvents == {"finish", "blocked_route", "death"}

\* dead implies finished, and finished holds exactly when the last event of
\* the log is a terminal one
FinishedIsLogged ==
    /\ state.dead => state.finished
    /\ state.finished <=> (log # <<>> /\ Last(log).event \in TerminalEvents)

\* a step() of a running simulation appends one event, a step() of a
\* terminal one appends none
StepLogsOnce ==
    called' = "step" => IF Running THEN AppendsOne(log, log') ELSE log' = log

\* C40: in every reachable state of the Simulator dead implies finished, and
\* finished holds iff the last entry of the event log is one of finish,
\* blocked_route, death; every step() in a Running state appends exactly one
\* event and a step() in a terminal state appends none
C40_LogTracksTermination == [](FinishedIsLogged) /\ [][StepLogsOnce]_vars

=============================================================================
